---- MODULE Spec2Model ----
(***************************************************************************)
(* Model of the Peepsy master process (src/src/master.ts): worker records, *)
(* load-balancing groups with a master-side pending queue, the active      *)
(* request table with its timers, the retry loop of sendRequest, and the   *)
(* exit / shutdown handlers.  Every handler of the master runs to          *)
(* completion on the event loop, so each handler is one atomic action.     *)
(***************************************************************************)
EXTENDS Integers, Sequences, FiniteSets, TLC

\* ---------------------------------------------------------------- bounds
MaxSends == 3        \* calls of sendRequest
FewSends == 2        \* calls of sendRequest where retries or shutdown are added
MaxRetries == 1      \* largest retry budget a caller passes
MaxChildren == 2     \* forks over the life of the master
MaxCap == 2          \* largest maxConcurrency passed to configureGroup
MaxConfigs == 1      \* calls of configureGroup
MoreConfigs == 2     \* calls of configureGroup where a group is configured again
MaxMsgs == 3         \* REQUEST envelopes delivered to the worker
MaxTime == 5         \* the master's clock stops here
MaxWorkerTime == 2   \* the worker's clock stops here
MaxTimeout == 1      \* largest timeout a REQUEST envelope carries
MaxWorkerCap == 2    \* largest maxConcurrency passed to new PeepsyChild
MaxForks == 3        \* forks over the life of the master where workers are restarted
OneSend == 1         \* calls of sendRequest where workers are restarted
MaxErrors == 1       \* a child emits no error once its target has counted this many
MaxUpcalls == 2      \* requests the worker sends to the master
MaxItems == 3        \* calls of enqueue on the queue taken alone
MaxPriority == 1     \* largest priority passed to enqueue
MaxItemTimeout == 2  \* largest timeout passed to enqueue
MaxQueueTime == 3    \* the clock of the queue taken alone stops here

\* ------------------------------------------------------ program constants
DefaultMissThreshold == 3          \* options.heartbeatMissThreshold ?? 3
heartbeatIntervalMs == 1           \* the unit of the clock is one heartbeat interval

\* ------------------------------------------------------------- universes
Targets == {"t1", "t2"}
TargetOrder == <<"t1", "t2">>       \* names are interchangeable: first spawns in this order
Groups == {"g1"}
GroupOrder == <<"g1">>
Nobody == "nobody"                 \* a name that is never spawned
NoGroup == "-"                     \* spawnChild without groupId
Null == "null"                     \* getTargetFromChild found nothing
Undef == "undefined"               \* GroupConfig.strategy left out
Strategies == {"round-robin", "random", "least-busy", "bogus"}
Statuses == {200, 500}             \* RESPONSE status codes
AllStatuses == {200, 399, 400, 404, 500}
Messages == {"", "E", "X"}          \* error strings: the empty one and two others
UnknownIds == {0}                  \* ids the master never allocated
Dests == Targets \cup Groups
Modes == {"sequential", "concurrent"}
Kinds == {"none", "sync", "throws", "async"}   \* no handler; returns; throws; returns a promise
Thresholds == 1..DefaultMissThreshold

VARIABLES
  processes,            \* target -> [child, groupId]
  processStats,         \* target -> [requestsHandled, requestsActive, errors]
  groups,               \* groupId -> [targets, config]
  roundRobinCounters,   \* groupId -> cursor
  activeRequests,       \* id -> [child, req, dest]  (the resolver closure)
  timers,               \* ids whose timeout timer is armed
  groupQueues,          \* groupId -> sequence of pending callers
  isShuttingDown,
  nextId,               \* ids are fresh: randomUUID() never repeats
  sentTo,               \* id -> child that was sent the REQUEST envelope
  nextChild,            \* children are fresh objects: next fork
  alive,                \* children forked and not yet exited
  targetOf,             \* child -> target captured by its event handlers
  shuttingChildren,     \* children with an onExit listener of shutdownChild
  gs,                   \* gracefulShutdown: [pc, await]
  req,                  \* caller r -> state of its sendRequest call
  nextReq,
  nConfigs,
  lastEvent,            \* "dropped" when the handler that ran last ignored its message,
                        \* "rejected" when spawnChild threw, "monitor" after a monitor tick,
                        \* "resolved" when a shutdownChild call resolved
  now,                  \* Date.now(), in units of heartbeatIntervalMs
  heartbeatMissThreshold,
  lastMonitor,          \* when the health monitor's interval last fired
  missed,               \* targets named by the heartbeat-missed events of the last tick
  killed,               \* children sent SIGKILL by the monitor or by a kill timer
  killTimers,           \* children for which a kill timer of shutdownChild is armed
  detached,             \* children whose listeners were removed while they were running
  lastHeard,            \* child -> when the master last got a message from it (its fork at first)
  worker,               \* the fields of one PeepsyChild object
  trace,                \* what that worker was sent, ran, dropped and answered
  rx,                   \* a RESPONSE envelope for an active request and what became of
                        \* the attempt that awaited it
  handlers,             \* master.handlers: the actions the master has a handler for
  pq,                   \* a PriorityQueue of its own, with what its dequeues returned
  up                    \* the requests the worker sends to the master: the worker's
                        \* activeRequests, the two directions of the channel, the
                        \* master's pending handlers and every RESPONSE it has sent

mvars == <<processes, processStats, groups, roundRobinCounters, activeRequests,
           timers, groupQueues, isShuttingDown, nextId, sentTo, nextChild,
           alive, targetOf, shuttingChildren, gs, req>>
vars == <<processes, processStats, groups, roundRobinCounters, activeRequests,
          timers, groupQueues, isShuttingDown, nextId, sentTo, nextChild,
          alive, targetOf, shuttingChildren, gs, req, nextReq, nConfigs,
          lastEvent, now, heartbeatMissThreshold, lastMonitor, missed, killed,
          killTimers, detached, lastHeard, worker, trace, rx, handlers, up, pq>>
hvars == <<now, heartbeatMissThreshold, lastMonitor, missed>>
wvars == <<worker, trace>>
kvars == <<killed, killTimers, detached>>
uvars == <<handlers, up>>
xvars == <<rx, uvars, pq>>

\* ---------------------------------------------------------------- helpers
Put(f, k, v) == [x \in DOMAIN f \cup {k} |-> IF x = k THEN v ELSE f[x]]
Del(f, k) == [x \in DOMAIN f \ {k} |-> f[x]]
Empty == [x \in {} |-> 0]
Range(s) == {s[i] : i \in DOMAIN s}
IndexOf(s, x) == IF x \in Range(s) THEN CHOOSE i \in DOMAIN s : s[i] = x /\ \A j \in 1..(i-1) : s[j] # x ELSE 0
RemoveAt(s, i) == [j \in 1..(Len(s) - 1) |-> IF j < i THEN s[j] ELSE s[j + 1]]
Max(a, b) == IF a >= b THEN a ELSE b

\* The master's mutable state as one record, so that the private methods,
\* which call each other, can be written as functions from state to state.
M == [processes |-> processes, processStats |-> processStats, groups |-> groups,
      roundRobinCounters |-> roundRobinCounters, activeRequests |-> activeRequests,
      timers |-> timers, groupQueues |-> groupQueues, nextId |-> nextId,
      sentTo |-> sentTo, nextChild |-> nextChild, alive |-> alive,
      targetOf |-> targetOf, req |-> req]

Commit(m) ==
  /\ processes' = m.processes
  /\ processStats' = m.processStats
  /\ groups' = m.groups
  /\ roundRobinCounters' = m.roundRobinCounters
  /\ activeRequests' = m.activeRequests
  /\ timers' = m.timers
  /\ groupQueues' = m.groupQueues
  /\ nextId' = m.nextId
  /\ sentTo' = m.sentTo
  /\ nextChild' = m.nextChild
  /\ alive' = m.alive
  /\ targetOf' = m.targetOf
  /\ req' = m.req

\* ------------------------------------------------------------------ stats
initializeProcessStats(stats, target) ==
  Put(stats, target, [requestsHandled |-> 0, requestsActive |-> 0, errors |-> 0,
                      lastActivity |-> now])

\* updatedStats is built from these fields only: a status or a lastHeartbeatAt
\* in updates is not copied, and lastActivity is always Date.now().
\* Mutant of updateProcessStats: Math.min in the place of Math.max.
updateProcessStats_MinClamp(stats, target, dHandled, dActive, dErrors) ==
  IF target = Null THEN stats
  ELSE IF target \notin DOMAIN stats THEN stats
  ELSE [stats EXCEPT ![target] =
          [requestsHandled |-> @.requestsHandled + dHandled,
           requestsActive |-> IF @.requestsActive + dActive < 0
                              THEN @.requestsActive + dActive ELSE 0,
           errors |-> @.errors + dErrors,
           lastActivity |-> now]]

updateProcessStats(stats, target, dHandled, dActive, dErrors) ==
  IF target = Null THEN stats
  ELSE IF target \notin DOMAIN stats THEN stats
  ELSE [stats EXCEPT ![target] =
          [requestsHandled |-> @.requestsHandled + dHandled,
           requestsActive |-> Max(0, @.requestsActive + dActive),
           errors |-> @.errors + dErrors,
           lastActivity |-> now]]

getTargetFromChild(procs, child) ==
  IF \E t \in DOMAIN procs : procs[t].child = child
  THEN CHOOSE t \in DOMAIN procs : procs[t].child = child
  ELSE Null

\* group.targets.reduce((sum, t) => sum + (processStats.get(t)?.requestsActive ?? 0), 0)
RECURSIVE SumActive(_, _)
SumActive(stats, targets) ==
  IF targets = <<>> THEN 0
  ELSE (IF Head(targets) \in DOMAIN stats THEN stats[Head(targets)].requestsActive ELSE 0)
       + SumActive(stats, Tail(targets))

GroupActive(m, g) == SumActive(m.processStats, m.groups[g].targets)

\* ------------------------------------------------- the caller's promise
\* Mutant of rejectAttempt: the loop test reads attempt <= maxRetries + 1.
rejectAttempt_OneMore(m, r, err) ==
  LET q == m.req[r]
      n == q.attempt + 1
  IN IF q.st # "pending" THEN m
     ELSE [m EXCEPT !.req[r] =
             [q EXCEPT !.lastError = err,
                       !.errs = Append(@, err),
                       !.attempt = n,
                       !.st = IF n <= q.retries + 1 THEN "delay" ELSE "rejected",
                       !.thrown = IF n <= q.retries + 1 THEN @ ELSE err]]

\* sendRequest's catch block followed by the loop header: remember the error,
\* attempt++, and either go on to the retry delay or throw lastError.
rejectAttempt(m, r, err) ==
  LET q == m.req[r]
      n == q.attempt + 1
      last == err
  IN IF q.st # "pending" THEN m
     ELSE [m EXCEPT !.req[r] =
             [q EXCEPT !.lastError = last,
                       !.errs = Append(@, err),
                       !.attempt = n,
                       !.st = IF n <= q.retries THEN "delay" ELSE "rejected",
                       !.thrown = IF n <= q.retries THEN @ ELSE last]]

\* sendRequest returns the response of the attempt.
resolveAttempt(m, r, id) ==
  LET q == m.req[r]
  IN IF q.st # "pending" THEN m
     ELSE [m EXCEPT !.req[r] = [q EXCEPT !.st = "resolved", !.result = id]]

\* ------------------------------------------------------------- scheduler
Infinity == -1

\* Mutant of LeastBusyFold: the comparison is <= instead of <.
RECURSIVE LeastBusyFold_LastWins(_, _, _, _, _)
LeastBusyFold_LastWins(stats, targets, index, leastBusyIndex, minActiveRequests) ==
  IF index >= Len(targets) THEN leastBusyIndex
  ELSE LET target == targets[index + 1]
           better == /\ target \in DOMAIN stats
                     /\ \/ minActiveRequests = Infinity
                        \/ stats[target].requestsActive <= minActiveRequests
       IN IF better
          THEN LeastBusyFold_LastWins(stats, targets, index + 1, index, stats[target].requestsActive)
          ELSE LeastBusyFold_LastWins(stats, targets, index + 1, leastBusyIndex, minActiveRequests)

RECURSIVE LeastBusyFold(_, _, _, _, _)
LeastBusyFold(stats, targets, index, leastBusyIndex, minActiveRequests) ==
  IF index >= Len(targets) THEN leastBusyIndex
  ELSE LET target == targets[index + 1]
           better == /\ target \in DOMAIN stats
                     /\ \/ minActiveRequests = Infinity
                        \/ stats[target].requestsActive < minActiveRequests
       IN IF better
          THEN LeastBusyFold(stats, targets, index + 1, index, stats[target].requestsActive)
          ELSE LeastBusyFold(stats, targets, index + 1, leastBusyIndex, minActiveRequests)

getLeastBusyProcessIndex(stats, targets) == LeastBusyFold(stats, targets, 0, 0, Infinity)

\* Mutant of getChildForGroup: the round-robin cursor is not advanced.
getChildForGroup_CursorStuck(m, groupId, rnd) ==
  LET rr == m.roundRobinCounters
      thrown == [kind |-> "throw", target |-> Null, rr |-> rr]
  IN IF groupId \notin DOMAIN m.groups THEN thrown
     ELSE LET group == m.groups[groupId]
              n == Len(group.targets)
              strategy == IF group.config.strategy = Undef THEN "round-robin"
                          ELSE group.config.strategy
              counter == IF groupId \in DOMAIN rr THEN rr[groupId] ELSE 0
              pick(targetIndex, rr2) ==
                LET target == group.targets[targetIndex + 1]
                IN [kind |-> IF target \in DOMAIN m.processes THEN "ok" ELSE "undefined",
                    target |-> target, rr |-> rr2]
          IN IF n = 0 THEN thrown
             ELSE CASE strategy = "round-robin" -> pick(counter % n, rr)
                    [] strategy = "random" -> pick(rnd % n, rr)
                    [] strategy = "least-busy" ->
                         pick(getLeastBusyProcessIndex(m.processStats, group.targets), rr)
                    [] OTHER -> thrown

\* Mutant of getChildForGroup: the switch has no default branch that throws;
\* an unknown strategy is served like round-robin.
getChildForGroup_UnknownIsRoundRobin(m, groupId, rnd) ==
  LET rr == m.roundRobinCounters
      thrown == [kind |-> "throw", target |-> Null, rr |-> rr]
  IN IF groupId \notin DOMAIN m.groups THEN thrown
     ELSE LET group == m.groups[groupId]
              n == Len(group.targets)
              strategy == IF group.config.strategy = Undef THEN "round-robin"
                          ELSE group.config.strategy
              counter == IF groupId \in DOMAIN rr THEN rr[groupId] ELSE 0
              pick(targetIndex, rr2) ==
                LET target == group.targets[targetIndex + 1]
                IN [kind |-> IF target \in DOMAIN m.processes THEN "ok" ELSE "undefined",
                    target |-> target, rr |-> rr2]
          IN IF n = 0 THEN thrown
             ELSE CASE strategy = "random" -> pick(rnd % n, rr)
                    [] strategy = "least-busy" ->
                         pick(getLeastBusyProcessIndex(m.processStats, group.targets), rr)
                    [] OTHER -> pick(counter % n, Put(rr, groupId, counter + 1))

\* Result: kind "throw" (PeepsyError), "undefined" (no record for the picked
\* target) or "ok"; rr is the round-robin table after the call.
getChildForGroup(m, groupId, rnd) ==
  LET rr == m.roundRobinCounters
      thrown == [kind |-> "throw", target |-> Null, rr |-> rr]
  IN IF groupId \notin DOMAIN m.groups THEN thrown
     ELSE LET group == m.groups[groupId]
              n == Len(group.targets)
              strategy == IF group.config.strategy = Undef THEN "round-robin"
                          ELSE group.config.strategy
              counter == IF groupId \in DOMAIN rr THEN rr[groupId] ELSE 0
              pick(targetIndex, rr2) ==
                LET target == group.targets[targetIndex + 1]
                IN [kind |-> IF target \in DOMAIN m.processes THEN "ok" ELSE "undefined",
                    target |-> target, rr |-> rr2]
          IN IF n = 0 THEN thrown
             ELSE CASE strategy = "round-robin" -> pick(counter % n, Put(rr, groupId, counter + 1))
                    [] strategy = "random" -> pick(rnd % n, rr)
                    [] strategy = "least-busy" ->
                         pick(getLeastBusyProcessIndex(m.processStats, group.targets), rr)
                    [] OTHER -> thrown

\* The part of executeRequest after the target is resolved: allocate the id,
\* arm the timer, install the resolver, count the request, send the envelope.
dispatch(m, r, dest, target) ==
  LET child == m.processes[target].child
      id == m.nextId
  IN [m EXCEPT !.nextId = id + 1,
               !.timers = @ \cup {id},
               !.activeRequests = Put(@, id, [child |-> child, req |-> r, dest |-> dest]),
               !.processStats = updateProcessStats(@, getTargetFromChild(m.processes, child), 0, 1, 0),
               !.sentTo = Put(@, id, child)]

\* Mutant of enqueue: the id is allocated before the capacity check.
enqueue_AllocatesId(m, r, groupId) ==
  [m EXCEPT !.groupQueues[groupId] = Append(@, r), !.nextId = @ + 1, !.req[r].queued = TRUE]

\* groupQueues.get(targetOrGroup).push({ action, data, timeout, resolve, reject })
enqueue(m, r, groupId) ==
  [m EXCEPT !.groupQueues[groupId] = Append(@, r), !.req[r].queued = TRUE]

executeRequest(m, r, targetOrGroup, rnd) ==
  IF targetOrGroup \in DOMAIN m.groups
  THEN LET maxConcurrency == m.groups[targetOrGroup].config.maxConcurrency
       IN IF maxConcurrency > 0 /\ GroupActive(m, targetOrGroup) >= maxConcurrency
          THEN enqueue(m, r, targetOrGroup)
          ELSE LET p == getChildForGroup(m, targetOrGroup, rnd)
                   m1 == [m EXCEPT !.roundRobinCounters = p.rr]
               IN CASE p.kind = "throw" -> rejectAttempt(m, r, "peepsy")
                    [] p.kind = "undefined" -> rejectAttempt(m1, r, "notfound")
                    [] OTHER -> dispatch(m1, r, targetOrGroup, p.target)
  ELSE IF targetOrGroup \in DOMAIN m.processes
       THEN dispatch(m, r, targetOrGroup, targetOrGroup)
       ELSE rejectAttempt(m, r, "notfound")

\* while (queue.length > 0) { if (active >= maxConcurrency) break; shift; executeRequest }
RECURSIVE drainQueue(_, _, _, _)
drainQueue(m, groupId, rnds, k) ==
  IF Len(m.groupQueues[groupId]) = 0 THEN m
  ELSE IF GroupActive(m, groupId) >= m.groups[groupId].config.maxConcurrency THEN m
  ELSE LET next == Head(m.groupQueues[groupId])
           m1 == [m EXCEPT !.groupQueues[groupId] = Tail(@)]
       IN drainQueue(executeRequest(m1, next, groupId, rnds[k]), groupId, rnds, k + 1)

RECURSIVE dispatchGroups(_, _, _, _)
dispatchGroups(m, targetFreed, order, rnds) ==
  IF order = <<>> THEN m
  ELSE LET groupId == Head(order)
           skip == \/ groupId \notin DOMAIN m.groups
                   \/ targetFreed \notin Range(m.groups[groupId].targets)
                   \/ Len(m.groupQueues[groupId]) = 0
                   \/ m.groups[groupId].config.maxConcurrency <= 0
       IN dispatchGroups(IF skip THEN m ELSE drainQueue(m, groupId, rnds, 1),
                         targetFreed, Tail(order), rnds)

maybeDispatchQueued(m, targetFreed, rnds) == dispatchGroups(m, targetFreed, GroupOrder, rnds)

\* ------------------------------------------------------ worker records
DefaultConfig == [strategy |-> Undef, maxConcurrency |-> 0, disableAutoRestart |-> FALSE]

addToGroup(m, target, groupId) ==
  LET m1 == IF groupId \in DOMAIN m.groups THEN m
            ELSE [m EXCEPT !.groups = Put(@, groupId, [targets |-> <<>>, config |-> DefaultConfig]),
                           !.roundRobinCounters = Put(@, groupId, 0)]
  IN IF target \in Range(m1.groups[groupId].targets) THEN m1
     ELSE [m1 EXCEPT !.groups[groupId].targets = Append(@, target)]

\* Mutant of spawnChild: processes.has(target) is not tested.
spawnChild_NoDuplicateCheck(m, shutting, target, groupId) ==
  IF shutting THEN m
  ELSE LET child == m.nextChild
           m1 == [m EXCEPT !.processes = Put(@, target, [child |-> child, groupId |-> groupId]),
                           !.processStats = initializeProcessStats(@, target),
                           !.nextChild = child + 1,
                           !.alive = @ \cup {child},
                           !.targetOf = Put(@, child, target)]
       IN IF groupId # NoGroup THEN addToGroup(m1, target, groupId) ELSE m1

\* Mutant of spawnChild: isShuttingDown is not tested.
spawnChild_NoShutdownCheck(m, shutting, target, groupId) ==
  IF target \in DOMAIN m.processes THEN m
  ELSE LET child == m.nextChild
           m1 == [m EXCEPT !.processes = Put(@, target, [child |-> child, groupId |-> groupId]),
                           !.processStats = initializeProcessStats(@, target),
                           !.nextChild = child + 1,
                           !.alive = @ \cup {child},
                           !.targetOf = Put(@, child, target)]
       IN IF groupId # NoGroup THEN addToGroup(m1, target, groupId) ELSE m1

\* Returns the state unchanged when spawnChild throws.
spawnChild(m, shutting, target, groupId) ==
  IF shutting THEN m
  ELSE IF target \in DOMAIN m.processes THEN m
  ELSE LET child == m.nextChild
           m1 == [m EXCEPT !.processes = Put(@, target, [child |-> child, groupId |-> groupId]),
                           !.processStats = initializeProcessStats(@, target),
                           !.nextChild = child + 1,
                           !.alive = @ \cup {child},
                           !.targetOf = Put(@, child, target)]
       IN IF groupId # NoGroup THEN addToGroup(m1, target, groupId) ELSE m1

\* Mutant of cleanupProcess: the target is not taken out of its group.
cleanupProcess_KeepsMembership(m, target) ==
  [m EXCEPT !.processes = Del(@, target), !.processStats = Del(@, target)]

cleanupProcess(m, target) ==
  LET emptied == {g \in DOMAIN m.groups : m.groups[g].targets = <<target>>}
      kept == DOMAIN m.groups \ emptied
      without(ts) == IF IndexOf(ts, target) = 0 THEN ts ELSE RemoveAt(ts, IndexOf(ts, target))
  IN [m EXCEPT !.processes = Del(@, target),
               !.processStats = Del(@, target),
               !.groups = [g \in kept |-> [m.groups[g] EXCEPT !.targets = without(@)]],
               !.roundRobinCounters = [g \in DOMAIN @ \ emptied |-> @[g]]]

\* config is a partial GroupConfig: a function from the fields given to values.
mergeConfig(base, config) ==
  [f \in DOMAIN base |-> IF f \in DOMAIN config THEN config[f] ELSE base[f]]

configureGroup(m, groupId, config) ==
  IF groupId \notin DOMAIN m.groups
  THEN [m EXCEPT !.groups = Put(@, groupId, [targets |-> <<>>,
                                              config |-> mergeConfig(DefaultConfig, config)]),
                 !.roundRobinCounters = Put(@, groupId, 0)]
  ELSE [m EXCEPT !.groups[groupId].config = mergeConfig(@, config)]

\* ----------------------------------------------------- message handlers
\* Mutant of handleResponse: the branch is taken without activeRequests.has(id).
handleResponse_NoHasCheck(m, target, id, status, rnds) ==
  LET m1 == IF id \notin DOMAIN m.activeRequests THEN m
            ELSE LET e == m.activeRequests[id]
                     owner == getTargetFromChild(m.processes, e.child)
                     s1 == updateProcessStats(m.processStats, owner, 1, 0, 0)
                     s2 == IF status >= 400 THEN updateProcessStats(s1, owner, 0, 0, 1) ELSE s1
                     m0 == [m EXCEPT !.timers = @ \ {id}, !.processStats = s2]
                 IN IF status >= 400 THEN rejectAttempt(m0, e.req, "peepsy")
                    ELSE resolveAttempt(m0, e.req, id)
      m3 == [m1 EXCEPT !.activeRequests = Del(@, id),
                       !.processStats = updateProcessStats(@, target, 0, -1, 0)]
  IN maybeDispatchQueued(m3, target, rnds)

\* The resolver installed by executeRequest, then the rest of the RESPONSE
\* branch of the child's message handler (target is the handler's closure).
handleResponse(m, target, id, status, rnds) ==
  IF id \notin DOMAIN m.activeRequests THEN m
  ELSE LET e == m.activeRequests[id]
           owner == getTargetFromChild(m.processes, e.child)
           s1 == updateProcessStats(m.processStats, owner, 1, 0, 0)
           s2 == IF status >= 400 THEN updateProcessStats(s1, owner, 0, 0, 1) ELSE s1
           m1 == [m EXCEPT !.timers = @ \ {id}, !.processStats = s2]
           m2 == IF status >= 400 THEN rejectAttempt(m1, e.req, "peepsy")
                 ELSE resolveAttempt(m1, e.req, id)
           m3 == [m2 EXCEPT !.activeRequests = Del(@, id),
                            !.processStats = updateProcessStats(@, target, 0, -1, 0)]
       IN maybeDispatchQueued(m3, target, rnds)

\* The callback of the setTimeout armed by executeRequest.
handleTimeout(m, id) ==
  LET e == m.activeRequests[id]
      m1 == [m EXCEPT !.timers = @ \ {id},
                      !.activeRequests = Del(@, id),
                      !.processStats = updateProcessStats(@, getTargetFromChild(m.processes, e.child), 0, 0, 1)]
  IN rejectAttempt(m1, e.req, "timeout")

\* Does the exit handler of child c go on to re-spawn?
willRestart(m, shutting, c) ==
  LET target == m.targetOf[c]
      m1 == cleanupProcess(m, target)
  IN /\ ~shutting
     /\ target \in DOMAIN m.processes
     /\ LET groupId == m.processes[target].groupId
        IN ~(groupId \in DOMAIN m1.groups /\ m1.groups[groupId].config.disableAutoRestart)

\* child.on('exit') registered by setupChildEventHandlers.
exitHandler(m, shutting, c) ==
  LET target == m.targetOf[c]
      m1 == [cleanupProcess(m, target) EXCEPT !.alive = @ \ {c}]
  IN IF willRestart(m, shutting, c)
     THEN spawnChild(m1, shutting, target, m.processes[target].groupId)
     ELSE m1

\* Mutant of onExit: resolve() without cleanup().
onExit_NoCleanup(m, c) == m

\* onExit registered by shutdownChild: cleanup() and resolve().
onExit(m, c) == cleanupProcess(m, m.targetOf[c])

\* processEntry?.child.connected ?? false
isProcessAlive(procs, running, target) ==
  target \in DOMAIN procs /\ procs[target].child \in running

\* ------------------------------------------------ PriorityQueue (utils.ts)
\* queue.sort((a, b) => a.priority - b.priority) is stable: an item goes behind
\* the items that sort no later than it.
\* Mutant of pqInsert: an entry goes in front of the entries of its priority.
pqInsert_BeforeEquals(sorted, x) ==
  LET k == Cardinality({i \in DOMAIN sorted : sorted[i].priority < x.priority})
  IN SubSeq(sorted, 1, k) \o <<x>> \o SubSeq(sorted, k + 1, Len(sorted))

\* One step of the stable sort: queue.push(x) then queue.sort(by priority) on
\* a queue that was sorted.
pqInsert(sorted, x) ==
  LET k == Cardinality({i \in DOMAIN sorted : sorted[i].priority <= x.priority})
  IN SubSeq(sorted, 1, k) \o <<x>> \o SubSeq(sorted, k + 1, Len(sorted))

RECURSIVE pqSort(_)
pqSort(q) == IF q = <<>> THEN <<>> ELSE pqInsert(pqSort(SubSeq(q, 1, Len(q) - 1)), q[Len(q)])

pqEnqueue(queue, item, priority, timeout) ==
  pqSort(Append(queue, [item |-> item, priority |-> priority,
                        expiry |-> now + timeout, timestamp |-> now]))

\* Mutant of pqDequeue: queue.pop() instead of queue.shift().
RECURSIVE pqDequeue_Pop(_)
pqDequeue_Pop(queue) ==
  IF queue = <<>> THEN [found |-> FALSE, item |-> 0, queue |-> <<>>, expired |-> {}]
  ELSE LET last == queue[Len(queue)]
           rest == SubSeq(queue, 1, Len(queue) - 1)
       IN IF now < last.expiry
          THEN [found |-> TRUE, item |-> last.item, queue |-> rest, expired |-> {}]
          ELSE [pqDequeue_Pop(rest) EXCEPT !.expired = @ \cup {last.item}]

\* Mutant of pqDequeue: the expiry is not tested.
pqDequeue_NoExpiryTest(queue) ==
  IF queue = <<>> THEN [found |-> FALSE, item |-> 0, queue |-> <<>>, expired |-> {}]
  ELSE [found |-> TRUE, item |-> Head(queue).item, queue |-> Tail(queue), expired |-> {}]

\* found is FALSE where dequeue returns null; expired are the items it shifted away.
RECURSIVE pqDequeue(_)
pqDequeue(queue) ==
  IF queue = <<>> THEN [found |-> FALSE, item |-> 0, queue |-> <<>>, expired |-> {}]
  ELSE IF now < Head(queue).expiry
       THEN [found |-> TRUE, item |-> Head(queue).item, queue |-> Tail(queue), expired |-> {}]
       ELSE [pqDequeue(Tail(queue)) EXCEPT !.expired = @ \cup {Head(queue).item}]

RECURSIVE pqPeek(_)
pqPeek(queue) ==
  IF queue = <<>> THEN [found |-> FALSE, item |-> 0, queue |-> <<>>, expired |-> {}]
  ELSE IF now < Head(queue).expiry
       THEN [found |-> TRUE, item |-> Head(queue).item, queue |-> queue, expired |-> {}]
       ELSE [pqPeek(Tail(queue)) EXCEPT !.expired = @ \cup {Head(queue).item}]

\* Mutant of cleanExpiredMessages: an entry is kept at the instant of its expiry.
cleanExpiredMessages_KeepsAtExpiry(queue) == SelectSeq(queue, LAMBDA qi : now <= qi.expiry)

cleanExpiredMessages(queue) == SelectSeq(queue, LAMBDA qi : now < qi.expiry)

\* ---------------------------------------------------- the worker (child)
\* The worker and what it has done so far, as one record for its methods.
W == [worker |-> worker, trace |-> trace]

CommitW(k) == worker' = k.worker /\ trace' = k.trace

\* new PeepsyChild(mode, options): the queue exists in sequential mode only.
\* maxConcurrency 0 stands for an options.maxConcurrency that is left out:
\* the message handler treats the two alike.
NewWorker(mode, maxConcurrency) ==
  [mode |-> mode, maxConcurrency |-> maxConcurrency, hasQueue |-> (mode = "sequential"),
   queue |-> <<>>, isProcessing |-> FALSE, isShuttingDown |-> FALSE,
   requestsInProgress |-> 0, connected |-> TRUE, forced |-> FALSE]

NewWorkers == {NewWorker(mode, c) : mode \in Modes, c \in 0..MaxWorkerCap}

NewTrace == [nextMsg |-> 1, kinds |-> Empty, running |-> Empty, emitted |-> <<>>,
             enqueued |-> <<>>, expired |-> {}, cleared |-> {}]

\* process.send({ type: 'RESPONSE', id, status, ... })
emit(k, id, status) ==
  IF k.worker.connected
  THEN [k EXCEPT !.trace.emitted = Append(@, [id |-> id, status |-> status])]
  ELSE k

\* Mutant of startHandler: the exception of a throwing handler escapes
\* processRequest and no RESPONSE is sent.
startHandler_ThrowEscapes(k, id, via) ==
  CASE k.trace.kinds[id] = "none" -> emit(k, id, 404)
    [] k.trace.kinds[id] = "sync" -> emit(k, id, 200)
    [] k.trace.kinds[id] = "throws" -> k
    [] OTHER -> [k EXCEPT !.trace.running = Put(@, id, via)]

\* processRequest up to its await: a missing, returning or throwing handler
\* answers at once; a handler that returns a promise is left running.
startHandler(k, id, via) ==
  CASE k.trace.kinds[id] = "none" -> emit(k, id, 404)
    [] k.trace.kinds[id] = "sync" -> emit(k, id, 200)
    [] k.trace.kinds[id] = "throws" -> emit(k, id, 500)
    [] OTHER -> [k EXCEPT !.trace.running = Put(@, id, via)]

\* The while loop of processQueue, from its test to the await it suspends
\* at, or to the finally block when it ends.
RECURSIVE runLoop(_)
runLoop(k) ==
  IF k.worker.queue = <<>> \/ k.worker.isShuttingDown
  THEN [k EXCEPT !.worker.isProcessing = FALSE]
  ELSE LET d == pqDequeue(k.worker.queue)
           k1 == [k EXCEPT !.worker.queue = d.queue, !.trace.expired = @ \cup d.expired]
       IN IF ~d.found THEN runLoop(k1)
          ELSE LET k2 == startHandler(k1, d.item, "queue")
               IN IF d.item \in DOMAIN k2.trace.running THEN k2 ELSE runLoop(k2)

\* Mutant of processQueue: the test of isProcessing is missing.
processQueue_NoBusyCheck(k) ==
  IF ~k.worker.hasQueue THEN k
  ELSE LET p == pqPeek(k.worker.queue)
           k1 == [k EXCEPT !.worker.queue = p.queue, !.trace.expired = @ \cup p.expired]
       IN IF ~p.found \/ k.worker.isShuttingDown THEN k1
          ELSE runLoop([k1 EXCEPT !.worker.isProcessing = TRUE])

processQueue(k) ==
  IF k.worker.isProcessing \/ ~k.worker.hasQueue THEN k
  ELSE LET p == pqPeek(k.worker.queue)
           k1 == [k EXCEPT !.worker.queue = p.queue, !.trace.expired = @ \cup p.expired]
       IN IF ~p.found \/ k.worker.isShuttingDown THEN k1
          ELSE runLoop([k1 EXCEPT !.worker.isProcessing = TRUE])

enqueueRequest(k, request, timeout) ==
  IF ~k.worker.hasQueue THEN k
  ELSE processQueue([k EXCEPT !.worker.queue = pqEnqueue(@, request, 0, timeout),
                              !.trace.enqueued = Append(@, request)])

\* requestsInProgress++, the handler, and (once it has settled) the finally block.
processRequestImmediately(k, request) ==
  LET k1 == startHandler([k EXCEPT !.worker.requestsInProgress = @ + 1], request, "immediate")
  IN IF request \in DOMAIN k1.trace.running THEN k1
     ELSE [k1 EXCEPT !.worker.requestsInProgress = @ - 1]

\* The pump: settled counts the handlers that answered at once, whose finally
\* blocks run only after the loop.
RECURSIVE pump(_, _)
pump(k, settled) ==
  IF k.worker.queue = <<>> \/ ~(k.worker.requestsInProgress < k.worker.maxConcurrency)
  THEN [k EXCEPT !.worker.requestsInProgress = @ - settled]
  ELSE LET d == pqDequeue(k.worker.queue)
           k1 == [k EXCEPT !.worker.queue = d.queue, !.trace.expired = @ \cup d.expired]
       IN IF ~d.found THEN pump(k1, settled)
          ELSE LET k2 == startHandler([k1 EXCEPT !.worker.requestsInProgress = @ + 1],
                                      d.item, "immediate")
               IN pump(k2, IF d.item \in DOMAIN k2.trace.running THEN settled ELSE settled + 1)

processQueueWithConcurrency(k) ==
  IF k.worker.isShuttingDown \/ ~k.worker.hasQueue THEN k ELSE pump(k, 0)

\* Mutant of handleRequest: the shutdown flag is not tested.
handleRequest_IgnoresShutdown(k, request, timeout) ==
  IF k.worker.mode = "sequential" THEN enqueueRequest(k, request, timeout)
  ELSE IF k.worker.hasQueue /\ k.worker.maxConcurrency > 0
       THEN processQueueWithConcurrency(enqueueRequest(k, request, timeout))
       ELSE processRequestImmediately(k, request)

\* The REQUEST branch of the worker's message handler.
handleRequest(k, request, timeout) ==
  IF k.worker.isShuttingDown THEN k
  ELSE IF k.worker.mode = "sequential" THEN enqueueRequest(k, request, timeout)
  ELSE IF k.worker.hasQueue /\ k.worker.maxConcurrency > 0
       THEN processQueueWithConcurrency(enqueueRequest(k, request, timeout))
       ELSE processRequestImmediately(k, request)

\* Mutant of handlerSettled: the loop of processQueue does not go round again.
handlerSettled_NoResume(k, request, status) ==
  LET via == k.trace.running[request]
      k1 == [emit(k, request, status) EXCEPT !.trace.running = Del(@, request)]
  IN IF via = "queue" THEN [k1 EXCEPT !.worker.isProcessing = FALSE]
     ELSE [k1 EXCEPT !.worker.requestsInProgress = @ - 1]

\* The promise of request's handler settles: the RESPONSE goes out, then the
\* caller of processRequest resumes.
handlerSettled(k, request, status) ==
  LET via == k.trace.running[request]
      k1 == [emit(k, request, status) EXCEPT !.trace.running = Del(@, request)]
  IN IF via = "queue" THEN runLoop(k1)
     ELSE [k1 EXCEPT !.worker.requestsInProgress = @ - 1]

\* ------------------------------------------------------ response mapping
\* A RESPONSE envelope: error is Undef when the field is absent, payload is
\* errorPayload?.message, Undef when there is no errorPayload.
Envelope(id, status, error, payload) ==
  [id |-> id, status |-> status, error |-> error, payload |-> payload]

Envelopes ==
  {Envelope(1, status, error, payload) :
     status \in AllStatuses, error \in {Undef, "", "E"}, payload \in {Undef} \cup Messages}

PlainEnvelope == Envelope(1, 200, Undef, Undef)

\* Boolean(s) of a string or undefined
Truthy(s) == s # Undef /\ s # ""

\* a ?? b
Nullish(a, b) == IF a # Undef THEN a ELSE b

\* `Request failed with status ${status}`
FailedWithStatus(status) == "Request failed with status " \o ToString(status)

\* The RESPONSE branch of the message handler builds the ResponseMessage.
mapEnvelope(env) ==
  LET errStr == Nullish(env.error, env.payload)
  IN [id |-> env.id, status |-> env.status, error |-> IF Truthy(errStr) THEN errStr ELSE Undef]

\* Mutant of resolver: the test is status > 400.
resolver_Above400(response) ==
  IF response.status > 400
  THEN [st |-> "rejected", name |-> "PeepsyError", id |-> response.id,
        message |-> Nullish(response.error, FailedWithStatus(response.status))]
  ELSE [st |-> "resolved", name |-> "none", id |-> response.id, message |-> response.error]

\* The resolver installed by executeRequest settles the attempt.
resolver(response) ==
  IF response.status >= 400
  THEN [st |-> "rejected", name |-> "PeepsyError", id |-> response.id,
        message |-> Nullish(response.error, FailedWithStatus(response.status))]
  ELSE [st |-> "resolved", name |-> "none", id |-> response.id, message |-> response.error]

\* ------------------------------------------- requests of the worker
MasterActions == {"masterAction", "known"}

\* `No handler registered for action: ${action}`
NoHandlerMessage(action) == "No handler registered for action: " \o action

\* The else branch of handleChildRequest builds the 404 envelope.
notFoundEnvelope(id, action) ==
  Envelope(id, 404, NoHandlerMessage(action), NoHandlerMessage(action))

\* The envelopes the master's handler branch sends once the handler settled.
handlerEnvelope(id, status) ==
  IF status = 200 THEN Envelope(id, 200, Undef, Undef) ELSE Envelope(id, 500, "E", "E")

\* Mutant of awaiter: the test is of the status, which a 404 passes.
awaiter_TestsStatus500(response) ==
  IF response.status >= 500
  THEN [st |-> "rejected", name |-> "PeepsyError", message |-> response.error]
  ELSE [st |-> "resolved", name |-> "none", message |-> Undef]

\* The resolver the worker's executeRequest installs for its request.
awaiter(response) ==
  IF Truthy(response.error)
  THEN [st |-> "rejected", name |-> "PeepsyError", message |-> response.error]
  ELSE [st |-> "resolved", name |-> "none", message |-> Undef]

\* ---------------------------------------------------------------- actions
\* Every child forked so far has been heard of: the new ones now, at their fork.
heardAfter(n) == [c \in 1..(n - 1) |-> IF c \in DOMAIN lastHeard THEN lastHeard[c] ELSE now]

\* members is the member list of the addressed group when the call was made,
\* queued whether the call ever waited in a pending queue.
NewReq == [st |-> "new", dest |-> Nobody, retries |-> 0, attempt |-> 0, attempts |-> 0,
           lastError |-> "none", errs |-> <<>>, thrown |-> "none", result |-> 0,
           members |-> <<>>, queued |-> FALSE]

\* The master after new PeepsyMaster(options) and the worker after
\* new PeepsyChild(mode, options), the options drawn from the given sets.
InitFor(thresholds, workers, envelopes) ==
  /\ processes = Empty
  /\ processStats = Empty
  /\ groups = Empty
  /\ roundRobinCounters = Empty
  /\ activeRequests = Empty
  /\ timers = {}
  /\ groupQueues = [g \in Groups |-> <<>>]
  /\ isShuttingDown = FALSE
  /\ nextId = 1
  /\ sentTo = Empty
  /\ nextChild = 1
  /\ alive = {}
  /\ targetOf = Empty
  /\ shuttingChildren = {}
  /\ gs = [pc |-> "idle", await |-> {}]
  /\ req = [r \in 1..Max(MaxSends, FewSends) |-> NewReq]
  /\ nextReq = 1
  /\ nConfigs = 0
  /\ lastEvent = "handled"
  /\ now = 1
  /\ heartbeatMissThreshold \in thresholds
  /\ lastMonitor = 1
  /\ missed = {}
  /\ killed = {}
  /\ killTimers = {}
  /\ detached = {}
  /\ lastHeard = Empty
  /\ worker \in workers
  /\ trace = NewTrace
  /\ rx \in {[envelope |-> env, attempt |-> [st |-> "pending"]] : env \in envelopes}
  /\ handlers = {}
  /\ pq = [queue |-> <<>>, nextItem |-> 1, out |-> <<>>, removed |-> 0, op |-> "new", at |-> 0,
           twice |-> FALSE]
  /\ up = [nextId |-> 1, active |-> {}, calls |-> Empty, toMaster |-> {}, toChild |-> {},
           running |-> {}, responses |-> <<>>]

InitWith(thresholds, workers) == InitFor(thresholds, workers, {PlainEnvelope})

\* Both constructed with their defaults.
Init == InitWith({DefaultMissThreshold}, {NewWorker("sequential", 0)})

\* Math.random() is drawn once per dispatch of a step; it only matters when
\* some group uses the random strategy.
RandomDraws ==
  IF \E g \in DOMAIN groups : groups[g].config.strategy = "random"
  THEN [1..MaxSends -> 0..(Cardinality(Targets) - 1)]
  ELSE {[k \in 1..MaxSends |-> 0]}

\* limit bounds the forks of the run.
SpawnChildUpTo(t, g, limit) ==
  /\ \A i \in 1..Len(TargetOrder) :
       TargetOrder[i] = t => \A j \in 1..(i - 1) : TargetOrder[j] \in Range(targetOf)
  /\ ~isShuttingDown
  /\ t \notin DOMAIN processes
  /\ nextChild <= limit
  /\ Commit(spawnChild(M, isShuttingDown, t, g))
  /\ lastEvent' = "handled"
  /\ lastHeard' = heardAfter(nextChild')
  /\ UNCHANGED <<xvars, isShuttingDown, shuttingChildren, gs, nextReq, nConfigs, kvars, hvars, wvars>>

SpawnChild(t, g) == SpawnChildUpTo(t, g, MaxChildren)

\* spawnChild called during shutdown or for a target that has a record: it throws.
SpawnChildThrows(t, g) ==
  /\ isShuttingDown \/ t \in DOMAIN processes
  /\ Commit(spawnChild(M, isShuttingDown, t, g))
  /\ lastEvent' = "rejected"
  /\ lastHeard' = heardAfter(nextChild')
  /\ UNCHANGED <<xvars, isShuttingDown, shuttingChildren, gs, nextReq, nConfigs, kvars, hvars, wvars>>

ConfigInputs ==
  {("maxConcurrency" :> c) : c \in 1..MaxCap}
    \cup {("strategy" :> "bogus") @@ ("maxConcurrency" :> c) : c \in 1..MaxCap}

\* A strategy alone, or least-busy together with a cap.
StrategyInputs ==
  {("strategy" :> s) : s \in Strategies}
    \cup {("strategy" :> "least-busy") @@ ("maxConcurrency" :> c) : c \in 1..MaxCap}

\* configureGroup(groupId, { disableAutoRestart })
RestartInputs == {("disableAutoRestart" :> b) : b \in BOOLEAN}

ConfigureGroup(g, in, limit) ==
  /\ nConfigs < limit
  /\ nConfigs' = nConfigs + 1
  /\ Commit(configureGroup(M, g, in))
  /\ lastEvent' = "handled"
  /\ UNCHANGED <<xvars, isShuttingDown, shuttingChildren, gs, nextReq, kvars, lastHeard, hvars, wvars>>

SendRequest(dest, retries, rnd, limit) ==
  /\ nextReq <= limit
  /\ LET r == nextReq
         m0 == [M EXCEPT !.req[r] = [NewReq EXCEPT !.st = "pending", !.dest = dest,
                                                   !.retries = retries, !.attempts = 1,
                                                   !.members = IF dest \in DOMAIN groups
                                                               THEN groups[dest].targets
                                                               ELSE <<>>]]
     IN /\ Commit(executeRequest(m0, r, dest, rnd[1]))
        /\ lastEvent' = "handled"
  /\ nextReq' = nextReq + 1
  /\ UNCHANGED <<xvars, isShuttingDown, shuttingChildren, gs, nConfigs, kvars, lastHeard, hvars, wvars>>

\* The retry delay of caller r has elapsed: the next attempt.
Retry(r, rnd) ==
  /\ req[r].st = "delay"
  /\ LET m0 == [M EXCEPT !.req[r].st = "pending", !.req[r].attempts = @ + 1]
     IN Commit(executeRequest(m0, r, req[r].dest, rnd[1]))
  /\ lastEvent' = "handled"
  /\ UNCHANGED <<xvars, isShuttingDown, shuttingChildren, gs, nextReq, nConfigs, kvars, lastHeard, hvars, wvars>>

\* Child c delivers a RESPONSE envelope carrying id: the answer to a REQUEST
\* it was sent (possibly late or repeated), or an id it made up.
ReceiveResponse(c, id, status, rnds) ==
  /\ c \in alive \ detached
  /\ id \in UnknownIds \cup {i \in DOMAIN sentTo : sentTo[i] = c}
  /\ Commit(handleResponse(M, targetOf[c], id, status, rnds))
  /\ lastEvent' = IF id \in DOMAIN activeRequests THEN "handled" ELSE "dropped"
  /\ lastHeard' = [lastHeard EXCEPT ![c] = now]
  /\ UNCHANGED <<xvars, isShuttingDown, shuttingChildren, gs, nextReq, nConfigs, kvars, hvars, wvars>>

Timeout(id) ==
  /\ id \in timers
  /\ id \in DOMAIN activeRequests
  /\ Commit(handleTimeout(M, id))
  /\ lastEvent' = "handled"
  /\ UNCHANGED <<xvars, isShuttingDown, shuttingChildren, gs, nextReq, nConfigs, kvars, lastHeard, hvars, wvars>>

\* Child c exits (on its own, after SHUTDOWN, or killed): the exit listeners
\* run in registration order, the spawn-time handler first.
ChildExitUpTo(c, limit) ==
  /\ c \in alive \ detached
  /\ willRestart(M, isShuttingDown, c) => nextChild <= limit
  /\ LET m1 == exitHandler(M, isShuttingDown, c)
         m2 == IF c \in shuttingChildren THEN onExit(m1, c) ELSE m1
     IN Commit(m2)
  /\ shuttingChildren' = shuttingChildren \ {c}
  /\ lastEvent' = IF c \in shuttingChildren THEN "resolved" ELSE "handled"
  /\ killed' = killed \ {c}
  /\ killTimers' = killTimers \ {c}
  /\ lastHeard' = heardAfter(nextChild')
  /\ UNCHANGED <<xvars, isShuttingDown, gs, nextReq, nConfigs, detached, hvars, wvars>>

\* A child without listeners exits: no handler of the master runs.
DetachedExit(c) ==
  /\ c \in alive \cap detached
  /\ alive' = alive \ {c}
  /\ killed' = killed \ {c}
  /\ lastEvent' = "handled"
  /\ UNCHANGED <<xvars, processes, processStats, groups, roundRobinCounters, activeRequests,
                 timers, groupQueues, isShuttingDown, nextId, sentTo, nextChild, targetOf,
                 shuttingChildren, gs, req, nextReq, nConfigs, killTimers, detached,
                 lastHeard, hvars, wvars>>

ChildExit(c) == ChildExitUpTo(c, MaxChildren)

\* shutdownChild up to the return of its promise: the exit listener, the
\* SHUTDOWN envelope and the kill timer.
ShutdownChild(t) ==
  /\ t \in DOMAIN processes
  /\ processes[t].child \notin shuttingChildren
  /\ shuttingChildren' = shuttingChildren \cup {processes[t].child}
  /\ killTimers' = killTimers \cup {processes[t].child}
  /\ lastEvent' = "handled"
  /\ UNCHANGED <<xvars, processes, processStats, groups, roundRobinCounters, activeRequests,
                 timers, groupQueues, isShuttingDown, nextId, sentTo, nextChild, alive,
                 targetOf, gs, req, nextReq, nConfigs, killed, detached, lastHeard,
                 hvars, wvars>>

\* The kill timer of shutdownChild expires: SIGKILL unless childExited is set.
\* The exit of the child clears the timer, so the flag can only have been set
\* by onError.
KillTimer(c) ==
  /\ c \in killTimers
  /\ killTimers' = killTimers \ {c}
  /\ killed' = IF c \in shuttingChildren THEN killed \cup {c} ELSE killed
  /\ lastEvent' = "handled"
  /\ UNCHANGED <<xvars, mvars, nextReq, nConfigs, detached, lastHeard, hvars, wvars>>

\* Child c emits 'error' while it is running (a send or a kill failed): the
\* listener registered at spawn counts the error and emits the master's error
\* event (a listener for it is assumed), then onError of a pending
\* shutdownChild sets childExited, runs cleanup() and rejects.
ChildError(c) ==
  /\ c \in alive \ detached
  /\ targetOf[c] \in DOMAIN processStats => processStats[targetOf[c]].errors < MaxErrors
  /\ LET m1 == [M EXCEPT !.processStats = updateProcessStats(@, targetOf[c], 0, 0, 1)]
     IN Commit(IF c \in shuttingChildren THEN cleanupProcess(m1, targetOf[c]) ELSE m1)
  /\ detached' = IF c \in shuttingChildren THEN detached \cup {c} ELSE detached
  /\ shuttingChildren' = shuttingChildren \ {c}
  /\ lastEvent' = "handled"
  /\ UNCHANGED <<xvars, isShuttingDown, gs, nextReq, nConfigs, killed, killTimers, lastHeard,
                 hvars, wvars>>

GracefulShutdown ==
  /\ ~isShuttingDown
  /\ isShuttingDown' = TRUE
  /\ LET cs == {processes[t].child : t \in DOMAIN processes}
     IN /\ shuttingChildren' = shuttingChildren \cup cs
        /\ gs' = [pc |-> "waiting", await |-> cs]
        /\ killTimers' = killTimers \cup cs
  /\ lastEvent' = "handled"
  /\ UNCHANGED <<xvars, processes, processStats, groups, roundRobinCounters, activeRequests,
                 timers, groupQueues, nextId, sentTo, nextChild, alive, targetOf, req,
                 nextReq, nConfigs, killed, detached, lastHeard, hvars, wvars>>

\* Promise.allSettled(shutdownPromises) settles once every awaited child exited.
ShutdownComplete ==
  /\ gs.pc = "waiting"
  /\ gs.await \cap alive = {}
  /\ gs' = [gs EXCEPT !.pc = "done"]
  /\ lastEvent' = "handled"
  /\ UNCHANGED <<xvars, processes, processStats, groups, roundRobinCounters, activeRequests,
                 timers, groupQueues, isShuttingDown, nextId, sentTo, nextChild, alive,
                 targetOf, shuttingChildren, req, nextReq, nConfigs, kvars, lastHeard,
                 hvars, wvars>>

Next ==
  \/ \E t \in Targets, g \in Groups \cup {NoGroup} : SpawnChild(t, g)
  \/ \E g \in Groups, in \in ConfigInputs : ConfigureGroup(g, in, MaxConfigs)
  \/ \E dest \in Dests, rnd \in RandomDraws : SendRequest(dest, 0, rnd, MaxSends)
  \/ \E c \in alive, id \in 0..(nextId - 1), status \in Statuses, rnds \in RandomDraws :
       ReceiveResponse(c, id, status, rnds)
  \/ \E id \in timers : Timeout(id)
  \/ \E c \in alive : ChildExit(c)

\* Callers that use the default retry budget (maxRetries = 0).
Spec == Init /\ [][Next]_vars

NextShutdown ==
  \/ \E t \in Targets, g \in Groups \cup {NoGroup} : SpawnChild(t, g)
  \/ \E t \in Targets, g \in Groups \cup {NoGroup} : SpawnChildThrows(t, g)
  \/ \E g \in Groups, in \in ConfigInputs : ConfigureGroup(g, in, MaxConfigs)
  \/ \E dest \in Dests, rnd \in RandomDraws : SendRequest(dest, 0, rnd, FewSends)
  \/ \E c \in alive, id \in 0..(nextId - 1), status \in Statuses, rnds \in RandomDraws :
       ReceiveResponse(c, id, status, rnds)
  \/ \E id \in timers : Timeout(id)
  \/ \E c \in alive : ChildExit(c)
  \/ \E t \in Targets : ShutdownChild(t)
  \/ GracefulShutdown
  \/ ShutdownComplete

\* The same with shutdownChild and gracefulShutdown.
SpecShutdown == Init /\ [][NextShutdown]_vars

NextRetry ==
  \/ \E t \in Targets, g \in Groups \cup {NoGroup} : SpawnChild(t, g)
  \/ \E dest \in Dests, retries \in 0..MaxRetries, rnd \in RandomDraws :
       SendRequest(dest, retries, rnd, FewSends)
  \/ \E r \in 1..FewSends, rnd \in RandomDraws : Retry(r, rnd)
  \/ \E c \in alive, id \in 0..(nextId - 1), status \in Statuses, rnds \in RandomDraws :
       ReceiveResponse(c, id, status, rnds)
  \/ \E id \in timers : Timeout(id)
  \/ \E c \in alive : ChildExit(c)

\* Callers that pass a retry budget.
SpecRetry == Init /\ [][NextRetry]_vars

NextStrategy ==
  \/ \E t \in Targets, g \in Groups \cup {NoGroup} : SpawnChild(t, g)
  \/ \E g \in Groups, in \in StrategyInputs : ConfigureGroup(g, in, MoreConfigs)
  \/ \E dest \in Dests, rnd \in RandomDraws : SendRequest(dest, 0, rnd, FewSends)
  \/ \E c \in alive, id \in 0..(nextId - 1), status \in Statuses, rnds \in RandomDraws :
       ReceiveResponse(c, id, status, rnds)
  \/ \E id \in timers : Timeout(id)
  \/ \E c \in alive : ChildExit(c)

\* Groups whose strategy is configured, and configured again.
SpecStrategy == Init /\ [][NextStrategy]_vars

\* ------------------------------------------------------------ the clock
others == <<mvars, nextReq, nConfigs, lastEvent, heartbeatMissThreshold, lastMonitor,
            missed, killed, killTimers, detached, lastHeard>>

\* The worker's clock and the master's: time passes.
Tick(limit) ==
  /\ now < limit
  /\ now' = now + 1
  /\ UNCHANGED <<xvars, others, wvars>>

\* ------------------------------------------------------- health monitor
\* stats.status: no code path stores it, see updateProcessStats.
statusOf(stats, target) ==
  IF "status" \in DOMAIN stats[target] THEN stats[target].status ELSE Undef

getUnhealthyProcesses(stats) == {t \in DOMAIN stats : statusOf(stats, t) = "unhealthy"}

\* const last = stats.lastHeartbeatAt ?? stats.lastActivity: lastHeartbeatAt is
\* never stored, so last is lastActivity.
isMissed(stats, target) ==
  now - stats[target].lastActivity > heartbeatIntervalMs * heartbeatMissThreshold

disableAutoRestartOf(m, target) ==
  /\ target \in DOMAIN m.processes
  /\ m.processes[target].groupId \in DOMAIN m.groups
  /\ m.groups[m.processes[target].groupId].config.disableAutoRestart

\* One run of the interval callback over all of processStats: either branch
\* ends in updateProcessStats(target, { status }).
RECURSIVE monitorTargets(_, _)
monitorTargets(stats, order) ==
  IF order = <<>> THEN stats
  ELSE LET target == Head(order)
       IN monitorTargets(IF target \in DOMAIN stats /\ stats[target].lastActivity # 0
                         THEN updateProcessStats(stats, target, 0, 0, 0)
                         ELSE stats,
                         Tail(order))

\* A HEARTBEAT envelope from child c:
\* updateProcessStats(target, { lastHeartbeatAt: ts, lastActivity: ts }).
Heartbeat(c) ==
  /\ c \in alive \ detached
  /\ processStats' = updateProcessStats(processStats, targetOf[c], 0, 0, 0)
  /\ lastHeard' = [lastHeard EXCEPT ![c] = now]
  /\ lastEvent' = "handled"
  /\ UNCHANGED <<xvars, processes, groups, roundRobinCounters, activeRequests, timers, groupQueues,
                 isShuttingDown, nextId, sentTo, nextChild, alive, targetOf, shuttingChildren,
                 gs, req, nextReq, nConfigs, kvars, hvars, wvars>>

\* The interval of startHealthMonitor fires, one interval or more after its
\* last run.
HealthMonitor ==
  /\ gs.pc # "done"
  /\ now - lastMonitor >= heartbeatIntervalMs
  /\ LET late == {t \in DOMAIN processStats :
                   processStats[t].lastActivity # 0 /\ isMissed(processStats, t)}
     IN /\ missed' = late
        /\ killed' = killed \cup {processes[t].child :
                                   t \in {u \in late \cap DOMAIN processes : ~disableAutoRestartOf(M, u)}}
        /\ processStats' = monitorTargets(processStats, TargetOrder)
  /\ lastMonitor' = now
  /\ lastEvent' = "monitor"
  /\ UNCHANGED <<xvars, processes, groups, roundRobinCounters, activeRequests, timers, groupQueues,
                 isShuttingDown, nextId, sentTo, nextChild, alive, targetOf, shuttingChildren,
                 gs, req, nextReq, nConfigs, lastHeard, now, heartbeatMissThreshold,
                 killTimers, detached, wvars>>

NextHealth ==
  \/ \E t \in Targets, g \in Groups \cup {NoGroup} : SpawnChild(t, g)
  \/ \E g \in Groups, in \in RestartInputs : ConfigureGroup(g, in, MaxConfigs)
  \/ \E c \in alive : ChildExit(c)
  \/ \E c \in alive : Heartbeat(c)
  \/ HealthMonitor
  \/ Tick(MaxTime)

\* The master with its clock running and no request traffic, for every
\* heartbeatMissThreshold up to the default.
SpecHealth == InitWith(Thresholds, {NewWorker("sequential", 0)}) /\ [][NextHealth]_vars

\* ------------------------------------------------------------ restarts
NextRestart ==
  \/ \E t \in Targets, g \in Groups \cup {NoGroup} : SpawnChildUpTo(t, g, MaxForks)
  \/ \E g \in Groups, in \in RestartInputs : ConfigureGroup(g, in, MaxConfigs)
  \/ \E dest \in Dests, rnd \in RandomDraws : SendRequest(dest, 0, rnd, OneSend)
  \/ \E c \in alive, id \in 0..(nextId - 1), status \in Statuses, rnds \in RandomDraws :
       ReceiveResponse(c, id, status, rnds)
  \/ \E c \in alive : ChildExitUpTo(c, MaxForks)
  \/ \E t \in Targets : ShutdownChild(t)
  \/ \E c \in alive : KillTimer(c)

\* Workers that exit on their own or are shut down one by one, with
\* auto-restart left on or turned off for their group.
SpecRestart == Init /\ [][NextRestart]_vars

\* Workers spawned into either of two groups, shut down, restarted after
\* their exit and spawned again, and groups that are configured.
MoreGroups == {"g1", "g2"}

NextGroups ==
  \/ \E t \in Targets, g \in MoreGroups \cup {NoGroup} : SpawnChildUpTo(t, g, MaxForks)
  \/ \E g \in MoreGroups, in \in RestartInputs : ConfigureGroup(g, in, MaxConfigs)
  \/ \E c \in alive : ChildExitUpTo(c, MaxForks)
  \/ \E t \in Targets : ShutdownChild(t)
  \/ \E c \in alive : KillTimer(c)

SpecGroups == Init /\ [][NextGroups]_vars

NextStop ==
  \/ \E t \in Targets, g \in Groups \cup {NoGroup} : SpawnChildUpTo(t, g, MaxForks)
  \/ \E c \in alive : ChildExitUpTo(c, MaxForks)
  \/ \E t \in Targets : ShutdownChild(t)
  \/ \E c \in alive : KillTimer(c)
  \/ \E c \in alive : ChildError(c)
  \/ \E c \in alive : DetachedExit(c)

\* An armed timer expires, and a process that was sent SIGKILL exits.
FairStop ==
  \A c \in 1..MaxForks :
    /\ WF_vars(KillTimer(c))
    /\ WF_vars(c \in killed /\ ChildExitUpTo(c, MaxForks))
    /\ WF_vars(c \in killed /\ DetachedExit(c))

\* Workers that are shut down one by one and may emit an error meanwhile.
SpecStop == Init /\ [][NextStop]_vars /\ FairStop

\* ------------------------------------------------ the mapping, applied
\* The envelope reaches the message handler while its request is active.
DeliverResponse ==
  /\ rx.attempt.st = "pending"
  /\ rx' = [rx EXCEPT !.attempt = resolver(mapEnvelope(rx.envelope))]
  /\ UNCHANGED <<pq, uvars, others, now, wvars>>

NextMapping == DeliverResponse

\* One RESPONSE envelope of any status, with or without an error string and
\* an errorPayload, delivered for an active request.
SpecMapping == InitFor({DefaultMissThreshold}, {NewWorker("sequential", 0)}, Envelopes)
               /\ [][NextMapping]_vars

\* ------------------------------------------------- actions of the worker
\* A REQUEST envelope reaches the worker's message handler.
WorkerRequest(kind, timeout) ==
  /\ trace.nextMsg <= MaxMsgs
  /\ worker.connected
  /\ LET id == trace.nextMsg
         k0 == [W EXCEPT !.trace.nextMsg = id + 1, !.trace.kinds = Put(@, id, kind)]
     IN CommitW(handleRequest(k0, id, timeout))
  /\ UNCHANGED <<xvars, others, now>>

HandlerDone(id, status) ==
  /\ id \in DOMAIN trace.running
  /\ CommitW(handlerSettled(W, id, status))
  /\ UNCHANGED <<xvars, others, now>>

\* The interval of startQueueCleanup fires.
QueueCleanup ==
  /\ worker.hasQueue /\ ~worker.isShuttingDown
  /\ worker' = [worker EXCEPT !.queue = cleanExpiredMessages(@)]
  /\ trace' = [trace EXCEPT !.expired =
                 @ \cup {worker.queue[i].item : i \in {j \in DOMAIN worker.queue :
                                                        ~(now < worker.queue[j].expiry)}}]
  /\ UNCHANGED <<xvars, others, now>>

\* gracefulShutdown up to its first await (SHUTDOWN, a signal, a disconnect).
WorkerShutdown ==
  /\ ~worker.isShuttingDown
  /\ worker' = [worker EXCEPT !.isShuttingDown = TRUE]
  /\ UNCHANGED <<xvars, others, now, trace>>

\* The rest of gracefulShutdown: the wait ends because requestsInProgress is
\* 0, the queue is cleared, the listeners are removed and the channel is
\* given up.
WorkerShutdownDone ==
  /\ worker.isShuttingDown /\ worker.connected
  /\ worker.requestsInProgress = 0
  /\ worker' = [worker EXCEPT !.queue = <<>>, !.connected = FALSE]
  /\ trace' = [trace EXCEPT !.cleared = @ \cup {worker.queue[i].item : i \in DOMAIN worker.queue}]
  /\ UNCHANGED <<xvars, others, now>>

\* ------------------------------------------- the queue, taken alone
\* queue.enqueue(item, priority, timeout); the items are numbered as they come.
Enqueue(priority, timeout) ==
  /\ pq.nextItem <= MaxItems
  /\ pq' = [pq EXCEPT !.queue = pqEnqueue(@, pq.nextItem, priority, timeout),
                      !.nextItem = @ + 1, !.op = "enqueue", !.at = now]
  /\ UNCHANGED <<rx, uvars, others, now, wvars>>

\* queue.dequeue(): out records what it returned, Null for null.
Dequeue ==
  /\ Len(pq.out) < MaxItems
  /\ LET d == pqDequeue(pq.queue)
     IN pq' = [pq EXCEPT !.queue = d.queue,
                         !.out = Append(@, IF d.found THEN d.item ELSE 0),
                         !.op = "dequeue", !.at = now]
  /\ UNCHANGED <<rx, uvars, others, now, wvars>>

\* queue.cleanExpiredMessages(): removed records the number it returned,
\* twice that the call before it, at the same instant, was one as well.
CleanExpired ==
  /\ pq' = [pq EXCEPT !.queue = cleanExpiredMessages(@),
                      !.removed = Len(pq.queue) - Len(cleanExpiredMessages(pq.queue)),
                      !.twice = (pq.op = "clean" /\ pq.at = now),
                      !.op = "clean", !.at = now]
  /\ UNCHANGED <<rx, uvars, others, now, wvars>>

NextQueue ==
  \/ Tick(MaxQueueTime)
  \/ \E priority \in 0..MaxPriority, timeout \in 1..MaxItemTimeout : Enqueue(priority, timeout)
  \/ Dequeue
  \/ CleanExpired

\* A PriorityQueue used through its own methods while time passes.
SpecQueue == Init /\ [][NextQueue]_vars

\* ------------------------------------- the worker's requests, in steps
RegisterHandler(action) ==
  /\ action \notin handlers
  /\ handlers' = handlers \cup {action}
  /\ UNCHANGED <<pq, rx, up, others, now, wvars>>

UnregisterHandler(action) ==
  /\ action \in handlers
  /\ handlers' = handlers \ {action}
  /\ UNCHANGED <<pq, rx, up, others, now, wvars>>

\* The worker's sendRequest (no retries) and its executeRequest: a worker
\* that is shutting down throws; otherwise the timer is armed and the entry
\* set, then the REQUEST is sent; without a channel the attempt is rejected
\* at once.
UpcallSend(action) ==
  /\ up.nextId <= MaxUpcalls
  /\ LET id == up.nextId
     IN up' = IF worker.isShuttingDown
              THEN [up EXCEPT !.nextId = id + 1,
                              !.calls = Put(@, id, [action |-> action, st |-> "rejected",
                                                    name |-> "PeepsyError",
                                                    message |-> "Cannot send request during shutdown"])]
              ELSE IF worker.connected
              THEN [up EXCEPT !.nextId = id + 1, !.active = @ \cup {id},
                              !.calls = Put(@, id, [action |-> action, st |-> "pending",
                                                    name |-> "none", message |-> Undef]),
                              !.toMaster = @ \cup {[id |-> id, action |-> action]}]
              ELSE [up EXCEPT !.nextId = id + 1,
                              !.calls = Put(@, id, [action |-> action, st |-> "rejected",
                                                    name |-> "PeepsyError",
                                                    message |-> "No IPC channel available"])]
  /\ UNCHANGED <<pq, rx, handlers, others, now, wvars>>

\* The timer of the worker's executeRequest fires.
UpcallTimeout(id) ==
  /\ id \in up.active
  /\ up' = [up EXCEPT !.active = @ \ {id},
                      !.calls[id] = [@ EXCEPT !.st = "rejected", !.name = "PeepsyTimeoutError",
                                              !.message = "Request timed out"]]
  /\ UNCHANGED <<pq, rx, handlers, others, now, wvars>>

\* handleChildRequest: the REQUEST of the worker reaches the master.
MasterHandleRequest(msg) ==
  /\ msg \in up.toMaster
  /\ up' = IF msg.action \in handlers
           THEN [up EXCEPT !.toMaster = @ \ {msg}, !.running = @ \cup {msg.id}]
           ELSE [up EXCEPT !.toMaster = @ \ {msg},
                           !.toChild = @ \cup {notFoundEnvelope(msg.id, msg.action)},
                           !.responses = Append(@, notFoundEnvelope(msg.id, msg.action))]
  /\ UNCHANGED <<pq, rx, handlers, others, now, wvars>>

\* The promise of the master's handler settles: then or catch sends.
MasterHandlerDone(id, status) ==
  /\ id \in up.running
  /\ up' = [up EXCEPT !.running = @ \ {id},
                      !.toChild = @ \cup {handlerEnvelope(id, status)},
                      !.responses = Append(@, handlerEnvelope(id, status))]
  /\ UNCHANGED <<pq, rx, handlers, others, now, wvars>>

\* The RESPONSE branch of the worker's message handler.
UpcallResponse(env) ==
  /\ env \in up.toChild
  /\ worker.connected
  /\ up' = IF ~worker.isShuttingDown /\ env.id \in up.active
           THEN [up EXCEPT !.toChild = @ \ {env}, !.active = @ \ {env.id},
                           !.calls[env.id] = [action |-> @.action] @@ awaiter(env)]
           ELSE [up EXCEPT !.toChild = @ \ {env}]
  /\ UNCHANGED <<pq, rx, handlers, others, now, wvars>>

NextUpcall ==
  \/ \E action \in MasterActions : RegisterHandler(action)
  \/ \E action \in MasterActions : UnregisterHandler(action)
  \/ \E action \in MasterActions : UpcallSend(action)
  \/ \E id \in 1..MaxUpcalls : UpcallTimeout(id)
  \/ \E msg \in up.toMaster : MasterHandleRequest(msg)
  \/ \E id \in 1..MaxUpcalls, status \in Statuses : MasterHandlerDone(id, status)
  \/ \E env \in up.toChild : UpcallResponse(env)
  \/ WorkerShutdown
  \/ WorkerShutdownDone

\* One worker that sends requests to the master, whose handlers come and go.
SpecUpcall == Init /\ [][NextUpcall]_vars

\* The same, when the wait ends because shutdownTimeout (10 s) has passed
\* with requestsInProgress still above 0.
WorkerShutdownForced ==
  /\ worker.isShuttingDown /\ worker.connected
  /\ worker.requestsInProgress > 0
  /\ worker' = [worker EXCEPT !.queue = <<>>, !.connected = FALSE, !.forced = TRUE]
  /\ trace' = [trace EXCEPT !.cleared = @ \cup {worker.queue[i].item : i \in DOMAIN worker.queue}]
  /\ UNCHANGED <<xvars, others, now>>

NextChild ==
  \/ Tick(MaxWorkerTime)
  \/ \E kind \in Kinds, timeout \in 1..MaxTimeout : WorkerRequest(kind, timeout)
  \/ \E id \in 1..MaxMsgs, status \in Statuses : HandlerDone(id, status)
  \/ QueueCleanup
  \/ WorkerShutdown
  \/ WorkerShutdownDone
  \/ WorkerShutdownForced

\* A worker of either mode that receives requests, sends requests of its own
\* and is shut down.
NextQuiesce ==
  \/ \E kind \in Kinds, timeout \in 1..MaxTimeout : WorkerRequest(kind, timeout)
  \/ \E id \in 1..MaxMsgs, status \in Statuses : HandlerDone(id, status)
  \/ \E action \in MasterActions : UpcallSend(action)
  \/ WorkerShutdown
  \/ WorkerShutdownDone
  \/ WorkerShutdownForced

SpecQuiesce == InitWith({DefaultMissThreshold}, NewWorkers) /\ [][NextQuiesce]_vars

\* Every handler terminates: the promise of a running handler settles.
FairHandlers == \A id \in 1..MaxMsgs : WF_vars(\E status \in Statuses : HandlerDone(id, status))

\* The steps of a sequential worker: its requestsInProgress stays 0, so its
\* shutdown never waits until the timeout.
NextSequential ==
  \/ Tick(MaxWorkerTime)
  \/ \E kind \in Kinds, timeout \in 1..MaxTimeout : WorkerRequest(kind, timeout)
  \/ \E id \in 1..MaxMsgs, status \in Statuses : HandlerDone(id, status)
  \/ QueueCleanup
  \/ WorkerShutdown
  \/ WorkerShutdownDone

\* A sequential worker whose handlers terminate.
SpecSequential == InitWith({DefaultMissThreshold},
                           {NewWorker("sequential", c) : c \in 0..MaxWorkerCap})
                  /\ [][NextSequential]_vars /\ FairHandlers

\* One worker of either mode, with or without maxConcurrency.
SpecChild == InitWith({DefaultMissThreshold}, NewWorkers) /\ [][NextChild]_vars

\* ================================================================ claims
\* The requests of group g that are really in flight: the entries of the
\* active table whose worker was spawned under a member of g.
InFlight(act, g) ==
  {id \in DOMAIN act : g \in DOMAIN groups /\ targetOf[act[id].child] \in Range(groups[g].targets)}

AtCap(g) ==
  /\ g \in DOMAIN groups
  /\ groups[g].config.maxConcurrency > 0
  /\ GroupActive(M, g) >= groups[g].config.maxConcurrency

Queued(r) == \E g \in Groups : r \in Range(groupQueues[g])

\* C1: for every group with maxConcurrency > 0, the sum of requestsActive over
\* its member targets is at most maxConcurrency, in every reachable state.
C1_GroupCapRespected ==
  \A g \in DOMAIN groups :
    groups[g].config.maxConcurrency > 0 =>
      GroupActive(M, g) <= groups[g].config.maxConcurrency

\* C2: a send to a group that is at its cap only appends the caller to the
\* group's pending queue (no id, no timer, no active entry, no stats change, no
\* envelope), and a caller leaves a pending queue only by being dispatched:
\* it gets an active entry or its dispatch fails and settles it.
C2_EnqueueAtCap ==
  [][ /\ \A g \in Groups :
           (nextReq' = nextReq + 1 /\ req'[nextReq].dest = g /\ AtCap(g)) =>
             /\ groupQueues' = [groupQueues EXCEPT ![g] = Append(@, nextReq)]
             /\ req'[nextReq].st = "pending"
             /\ UNCHANGED <<nextId, timers, activeRequests, processStats, sentTo>>
      /\ \A g \in Groups : \A r \in Range(groupQueues[g]) :
           r \notin Range(groupQueues'[g]) =>
             \/ \E id \in DOMAIN activeRequests' \ DOMAIN activeRequests :
                  activeRequests'[id].req = r
             \/ req'[r].st = "rejected"
    ]_vars

\* C2 witness: a caller waits in a pending queue, its send still unsettled.
C2_Witness ==
  \E g \in Groups : groupQueues[g] # <<>> /\ req[Head(groupQueues[g])].st = "pending"

\* C3: whenever an in-flight request of a group ends (response, timeout, exit)
\* while callers wait in the group's queue, the group keeps a member, the
\* master is not shutting down and fewer requests than the cap stay in flight,
\* the caller at the head of the queue is dispatched.
C3_DispatchWhenCapacityFrees ==
  [][ \A g \in Groups :
        ( /\ g \in DOMAIN groups /\ g \in DOMAIN groups'
          /\ groups[g].config.maxConcurrency > 0
          /\ groupQueues[g] # <<>>
          /\ ~isShuttingDown
          /\ \E id \in InFlight(activeRequests, g) : id \notin DOMAIN activeRequests'
          /\ Cardinality(InFlight(activeRequests, g) \cap DOMAIN activeRequests')
               < groups[g].config.maxConcurrency )
        => Head(groupQueues[g]) \notin Range(groupQueues'[g])
    ]_vars

\* C4: the pending queue of a group is first-in first-out, and no caller is
\* dispatched to a worker of a group while a caller that sent to that group
\* earlier still waits in its pending queue.
C4_FifoDispatch ==
  [][ /\ \A g \in Groups :
           \E k \in 0..Len(groupQueues[g]) :
             \/ groupQueues'[g] = SubSeq(groupQueues[g], k + 1, Len(groupQueues[g]))
             \/ /\ k = 0
                /\ groupQueues'[g] # <<>>
                /\ groupQueues'[g] = Append(groupQueues[g], groupQueues'[g][Len(groupQueues'[g])])
      /\ \A id \in DOMAIN activeRequests' \ DOMAIN activeRequests :
           LET e == activeRequests'[id]
           IN e.dest \in Groups => \A r \in Range(groupQueues'[e.dest]) : r > e.req
    ]_vars

\* C5: when shutdown_all has completed no caller is left in a pending queue.
C5_QueueRejectedOnShutdown ==
  gs.pc = "done" => \A g \in Groups : groupQueues[g] = <<>>

\* C6: the expiry of the timer of an active request removes its entry, adds
\* exactly one to the errors of the target the request was sent to, and
\* rejects the attempt with a timeout error.
C6_TimeoutEffects ==
  [][ \A id \in timers :
        Timeout(id) =>
          LET e == activeRequests[id]
              t == targetOf[e.child]
          IN /\ id \notin DOMAIN activeRequests'
             /\ id \notin timers'
             /\ t \in DOMAIN processStats =>
                  /\ t \in DOMAIN processStats'
                  /\ processStats'[t].errors = processStats[t].errors + 1
             /\ req'[e.req].errs = Append(req[e.req].errs, "timeout")
    ]_vars

\* C7: a RESPONSE whose id has no entry in the active table changes nothing
\* in the master and reaches no caller.
C7_UnknownResponseIgnored == [][lastEvent' = "dropped" => UNCHANGED mvars]_vars

\* C7 witness: the late answer to a request that already timed out was dropped.
C7_Witness ==
  /\ lastEvent = "dropped"
  /\ \E id \in DOMAIN sentTo :
       /\ id \notin DOMAIN activeRequests
       /\ sentTo[id] \in alive
  /\ \E r \in 1..MaxSends : req[r].errs = <<"timeout">>

\* C8: no request stays in flight to a worker that has exited.
C8_ExitRejectsInFlight ==
  \A id \in DOMAIN activeRequests : activeRequests[id].child \in alive

\* C9: a send with budget r makes at most r + 1 attempts, none after a
\* success, whose response it returns; when all r + 1 fail it throws the
\* error of the last one.
C9_RetryBudget ==
  [][ \A r \in 1..FewSends :
        LET q == req'[r]
        IN /\ q.attempts <= q.retries + 1
           /\ req[r].st \in {"resolved", "rejected"} => q = req[r]
           /\ q.st = "resolved" =>
                /\ Len(q.errs) = q.attempts - 1
                /\ q.result \in DOMAIN sentTo'
           /\ q.st = "rejected" =>
                /\ q.attempts = q.retries + 1
                /\ Len(q.errs) = q.attempts
                /\ q.thrown = q.errs[Len(q.errs)]
    ]_vars

\* C9 witness: a send that used up a budget of one retry, its two attempts
\* failing with different errors.
C9_Witness ==
  \E r \in 1..FewSends :
    /\ req[r].st = "rejected"
    /\ req[r].retries = 1
    /\ req[r].errs[1] # req[r].errs[2]

\* C10: a not-found failure ends the send: it is rejected with not-found and
\* no attempt follows.
C10_NotFoundNotRetried ==
  \A r \in 1..FewSends :
    \A i \in 1..Len(req[r].errs) :
      req[r].errs[i] = "notfound" =>
        /\ i = Len(req[r].errs)
        /\ req[r].st = "rejected"
        /\ req[r].thrown = "notfound"

\* C11: in a sequential-mode worker at most one handler is executing at any
\* instant, and a REQUEST that arrives while a handler runs is only appended
\* to the queue: no handler starts and no RESPONSE goes out.
C11_OneHandlerAtATime ==
  [][ worker.mode = "sequential" =>
        /\ Cardinality(DOMAIN trace'.running) <= 1
        /\ ( /\ trace.running # Empty
             /\ trace'.nextMsg = trace.nextMsg + 1
             /\ ~worker.isShuttingDown )
           => /\ trace'.running = trace.running
              /\ trace'.emitted = trace.emitted
              /\ Len(worker'.queue) = Len(worker.queue) + 1
              /\ worker'.queue[Len(worker'.queue)].item = trace.nextMsg
    ]_vars

\* C11 witness: a handler is running and two later REQUESTs wait in the queue.
C11_Witness ==
  /\ worker.mode = "sequential"
  /\ Cardinality(DOMAIN trace.running) = 1
  /\ Len(worker.queue) = 2

\* C12: a sequential-mode worker emits its RESPONSEs in the order in which the
\* REQUESTs were enqueued, and when a RESPONSE goes out every REQUEST enqueued
\* before it has been answered already or was dropped from the queue as expired.
C12_ResponsesInEnqueueOrder ==
  worker.mode = "sequential" =>
    LET pos(id) == IndexOf(trace.enqueued, id)
        out == trace.emitted
    IN /\ \A j \in DOMAIN out : pos(out[j].id) > 0
       /\ \A i, j \in DOMAIN out : i < j => pos(out[i].id) < pos(out[j].id)
       /\ \A j \in DOMAIN out : \A a \in Range(trace.enqueued) :
            pos(a) < pos(out[j].id) =>
              \/ \E i \in 1..(j - 1) : out[i].id = a
              \/ a \in trace.expired

\* C12 witness: three REQUESTs were enqueued, the second expired in the queue
\* behind a running handler, the first and the third were answered in order.
C12_Witness ==
  /\ worker.mode = "sequential"
  /\ trace.enqueued = <<1, 2, 3>>
  /\ 2 \in trace.expired
  /\ Len(trace.emitted) = 2
  /\ trace.emitted[1].id = 1 /\ trace.emitted[2].id = 3

\* C13: a concurrent-mode worker constructed with maxConcurrency = c > 0 never
\* has more than c handlers executing at the same time.
C13_WorkerCapRespected ==
  (worker.mode = "concurrent" /\ worker.maxConcurrency > 0) =>
    Cardinality(DOMAIN trace.running) <= worker.maxConcurrency

\* The calls addressed to group g that were answered by the worker of target t.
HandledBy(g, t) ==
  {r \in 1..MaxSends : /\ req[r].dest = g
                       /\ req[r].st = "resolved"
                       /\ targetOf[sentTo[req[r].result]] = t}

\* Group g has had the member list it has now for every call addressed to it,
\* no worker has exited, and all those calls (at least one) have succeeded.
SettledRoundRobin(g) ==
  /\ g \in DOMAIN groups
  /\ groups[g].config.strategy \in {Undef, "round-robin"}
  /\ alive = DOMAIN targetOf
  /\ \E r \in 1..MaxSends : req[r].dest = g
  /\ \A r \in 1..MaxSends :
       req[r].dest = g => req[r].st = "resolved" /\ req[r].members = groups[g].targets

\* C14: under round-robin with a fixed member list, once all the calls
\* addressed to the group have succeeded, the numbers of them handled by any
\* two members differ by at most one, whether or not some waited in the queue.
C14_RoundRobinBalanced ==
  \A g \in Groups :
    SettledRoundRobin(g) =>
      \A t, u \in Range(groups[g].targets) :
        Cardinality(HandledBy(g, t)) - Cardinality(HandledBy(g, u)) <= 1

\* C14 witness: three calls to a group of two members all succeeded, one of
\* them after waiting in the pending queue.
C14_Witness ==
  \E g \in Groups :
    /\ SettledRoundRobin(g)
    /\ Len(groups[g].targets) = 2
    /\ Cardinality({r \in 1..MaxSends : req[r].dest = g}) = 3
    /\ \E r \in 1..MaxSends : req[r].dest = g /\ req[r].queued

ValidStrategies == {Undef, "round-robin", "random", "least-busy"}

\* C15: when one call is dispatched to a least-busy group, the target it goes
\* to is a member whose requestsActive was minimal among the members when it
\* was selected (the count before the dispatch added one to it), and no member
\* earlier in the list had the same count.
C15_LeastBusySelection ==
  [][ \A id \in DOMAIN activeRequests' \ DOMAIN activeRequests :
        LET g == activeRequests'[id].dest
            t == targetOf'[activeRequests'[id].child]
            members == groups'[g].targets
            sel(u) == processStats'[u].requestsActive - (IF u = t THEN 1 ELSE 0)
        IN ( /\ Cardinality(DOMAIN activeRequests' \ DOMAIN activeRequests) = 1
             /\ g \in Groups
             /\ groups'[g].config.strategy = "least-busy" )
           => /\ t \in Range(members)
              /\ \A u \in Range(members) :
                   /\ sel(t) <= sel(u)
                   /\ sel(u) = sel(t) => IndexOf(members, t) <= IndexOf(members, u)
    ]_vars

\* C15 witness: a least-busy group of two members whose first member is the
\* busier one has dispatched a call to its second member.
C15_Witness ==
  \E g \in DOMAIN groups : \E id \in DOMAIN activeRequests :
    /\ groups[g].config.strategy = "least-busy"
    /\ Len(groups[g].targets) = 2
    /\ activeRequests[id].dest = g
    /\ targetOf[activeRequests[id].child] = groups[g].targets[2]
    /\ processStats[groups[g].targets[1]].requestsActive > 0

\* C16: configureGroup with an unknown strategy stores it; from then on a
\* dispatch to the group fails with a PeepsyError and neither sends anything
\* nor changes the stats, and no call is dispatched to the group; with a valid
\* strategy a dispatch to the group (it has members and is below its cap)
\* puts the call in flight.
C16_UnknownStrategyFailsLazily ==
  [][ /\ \A g \in Groups, in \in StrategyInputs :
           ConfigureGroup(g, in, MoreConfigs) => groups'[g].config.strategy = in.strategy
      /\ \A g \in Groups :
           ( /\ nextReq' = nextReq + 1
             /\ req'[nextReq].dest = g
             /\ g \in DOMAIN groups
             /\ ~AtCap(g) )
           => IF groups[g].config.strategy \notin ValidStrategies
              THEN /\ req'[nextReq].st = "rejected"
                   /\ req'[nextReq].thrown = "peepsy"
                   /\ UNCHANGED <<nextId, activeRequests, timers, sentTo, processStats>>
              ELSE groups[g].targets # <<>> =>
                     \E id \in DOMAIN activeRequests' \ DOMAIN activeRequests :
                       activeRequests'[id].req = nextReq
      /\ \A id \in DOMAIN activeRequests' \ DOMAIN activeRequests :
           activeRequests'[id].dest \in Groups =>
             groups[activeRequests'[id].dest].config.strategy \in ValidStrategies
    ]_vars

\* C16 witness: a call to a group that had members failed with a PeepsyError
\* under the unknown strategy, the group was configured again, and a later
\* call to it is in flight.
C16_Witness ==
  \E g \in DOMAIN groups : \E r1, r2 \in 1..MaxSends :
    /\ nConfigs = 2
    /\ groups[g].config.strategy \in ValidStrategies
    /\ r1 < r2
    /\ req[r1].dest = g /\ req[r1].members # <<>> /\ req[r1].thrown = "peepsy"
    /\ req[r1].errs = <<"peepsy">> /\ ~req[r1].queued
    /\ \E id \in DOMAIN activeRequests : activeRequests[id].req = r2 /\ activeRequests[id].dest = g

\* C17: a spawn of a target that has a worker record throws and changes
\* nothing: the records, the stats, the member lists and the round-robin
\* cursors stay as they were and no process is forked.
C17_DuplicateSpawnRejected ==
  [][ (lastEvent' = "rejected" /\ ~isShuttingDown) =>
        UNCHANGED <<processes, processStats, groups, roundRobinCounters,
                    nextChild, alive, targetOf>>
    ]_vars

\* C17 witness: a duplicate spawn was rejected while a group had a member, an
\* advanced cursor and a request in flight.
C17_Witness ==
  /\ lastEvent = "rejected"
  /\ ~isShuttingDown
  /\ \E g \in DOMAIN groups : groups[g].targets # <<>> /\ roundRobinCounters[g] > 0
  /\ \E t \in DOMAIN processStats : processStats[t].requestsActive > 0

\* C18: once gracefulShutdown has started the master stays shutting down and
\* no worker is created: no spawn forks, whether called explicitly or by the
\* exit handler of a worker.
C18_NoSpawnAfterShutdown ==
  [][ isShuttingDown =>
        /\ isShuttingDown'
        /\ nextChild' = nextChild
        /\ alive' \subseteq alive
        /\ DOMAIN processes' \subseteq DOMAIN processes
    ]_vars

\* C18 witness: during shutdown a worker has exited and an explicit spawn of
\* its target was rejected.
C18_Witness ==
  /\ isShuttingDown
  /\ lastEvent = "rejected"
  /\ gs.await \ alive # {}
  /\ DOMAIN processes = {}

\* C19: at a monitor tick, a worker the master has heard nothing from for
\* longer than heartbeatIntervalMs * heartbeatMissThreshold is named by a
\* heartbeat-missed event, and a worker heard from within that window is not.
C19_SilentWorkerReported ==
  [][ lastMonitor' # lastMonitor =>
        \A t \in DOMAIN processes :
          LET silence == now - lastHeard[processes[t].child]
          IN IF silence > heartbeatIntervalMs * heartbeatMissThreshold
             THEN t \in missed'
             ELSE t \notin missed'
    ]_vars

\* C20: right after a monitor tick, a target it reported has status unhealthy
\* and is listed by getUnhealthyProcesses, and a target it found within the
\* threshold has status healthy and is not listed.
C20_StatusObservable ==
  lastEvent = "monitor" =>
    \A t \in DOMAIN processStats :
      IF t \in missed
      THEN statusOf(processStats, t) = "unhealthy" /\ t \in getUnhealthyProcesses(processStats)
      ELSE statusOf(processStats, t) = "healthy" /\ t \notin getUnhealthyProcesses(processStats)

\* The stats of a target that was just spawned.
FreshStats(stats, t) ==
  /\ stats[t].requestsHandled = 0
  /\ stats[t].requestsActive = 0
  /\ stats[t].errors = 0

\* C21: when the registered worker of a target exits while the master is not
\* shutting down and auto-restart is not disabled for it, a new worker is
\* forked and, after the exit has been handled, the target is registered with
\* the new worker, in the group it was spawned into and with fresh stats.
C21_ExitRestarts ==
  [][ \A c \in alive \ alive' :
        LET t == targetOf[c]
        IN ( /\ ~isShuttingDown
             /\ t \in DOMAIN processes
             /\ processes[t].child = c
             /\ ~disableAutoRestartOf(M, t) )
           => /\ nextChild' = nextChild + 1
              /\ t \in DOMAIN processes'
              /\ processes'[t].child \in alive' \ alive
              /\ processes'[t].groupId = processes[t].groupId
              /\ t \in DOMAIN processStats' /\ FreshStats(processStats', t)
              /\ processes[t].groupId # NoGroup =>
                   /\ processes[t].groupId \in DOMAIN groups'
                   /\ t \in Range(groups'[processes[t].groupId].targets)
    ]_vars

\* C22: a worker whose group has disableAutoRestart = true is not re-spawned
\* when it exits (no fork, and its target has no record afterwards), the only
\* member of a group included, and a monitor tick never kills it.
C22_DisabledNeverRestarts ==
  [][ /\ \A c \in alive \ alive' :
           LET t == targetOf[c]
           IN ( /\ t \in DOMAIN processes
                /\ processes[t].child = c
                /\ disableAutoRestartOf(M, t) )
              => /\ nextChild' = nextChild
                 /\ t \notin DOMAIN processes'
      /\ lastMonitor' # lastMonitor =>
           \A t \in DOMAIN processes :
             disableAutoRestartOf(M, t) => processes[t].child \notin killed' \ killed
    ]_vars

\* The bound on forks still lets an exit re-spawn.
ForksLeft == nextChild <= MaxForks

\* C23: once shutdownChild has been called for a target, its worker
\* eventually exits (on its own or killed when the timer expires) and the
\* call is settled.
C23_ShutdownChildCompletes ==
  \A c \in 1..MaxForks :
    (c \in shuttingChildren) ~> ((c \notin alive /\ c \notin shuttingChildren) \/ ~ForksLeft)

\* The groups that list target t.
GroupsOf(grps, t) == {g \in DOMAIN grps : t \in Range(grps[g].targets)}

\* C24: when shutdownChild(t) resolves, t has no record, no stats and no
\* group membership and isProcessAlive(t) is false, while the record, stats
\* and group membership of every other target are as before; the call of
\* shutdownChild itself changes none of them; and a request sent to a target
\* that has a record is dispatched to its worker.
C24_ShutdownChildFrame ==
  [][ /\ \A c \in shuttingChildren \ alive' :
           LET t == targetOf[c]
           IN /\ t \notin DOMAIN processes'
              /\ t \notin DOMAIN processStats'
              /\ GroupsOf(groups', t) = {}
              /\ ~isProcessAlive(processes', alive', t)
              /\ \A u \in Targets \ {t} :
                   /\ u \in DOMAIN processes <=> u \in DOMAIN processes'
                   /\ u \in DOMAIN processes => processes'[u] = processes[u]
                   /\ u \in DOMAIN processStats <=> u \in DOMAIN processStats'
                   /\ u \in DOMAIN processStats => processStats'[u] = processStats[u]
                   /\ GroupsOf(groups', u) = GroupsOf(groups, u)
                   /\ isProcessAlive(processes', alive', u) = isProcessAlive(processes, alive, u)
      /\ shuttingChildren' \ shuttingChildren # {} =>
           UNCHANGED <<processes, processStats, groups, alive>>
      /\ \A u \in DOMAIN processes :
           (nextReq' = nextReq + 1 /\ req'[nextReq].dest = u) =>
             \E id \in DOMAIN activeRequests' \ DOMAIN activeRequests :
               /\ activeRequests'[id].req = nextReq
               /\ activeRequests'[id].child = processes[u].child
    ]_vars

\* C24 witness: shutdownChild of one target has just resolved while another
\* target, a member of a group, has a request in flight.
C24_Witness ==
  /\ lastEvent = "resolved"
  /\ \E t \in Targets, u \in DOMAIN processes :
       /\ t \notin DOMAIN processes
       /\ t \in Range(targetOf)
       /\ GroupsOf(groups, u) # {}
       /\ processStats[u].requestsActive = 1
       /\ \E id \in DOMAIN activeRequests : activeRequests[id].child = processes[u].child

\* The ids of the RESPONSEs in a sequence of them.
IdsOf(out) == {out[i].id : i \in DOMAIN out}

\* The status a request gets when its handler answers at once.
StatusOfKind(kind) ==
  CASE kind = "none" -> 404
    [] kind = "sync" -> 200
    [] kind = "throws" -> 500

\* The requests whose processing begins in the step: they leave the queue
\* unexpired, or arrive at a worker that processes at once.
Started ==
  (DOMAIN trace'.running \cup IdsOf(trace'.emitted)) \ (DOMAIN trace.running \cup IdsOf(trace.emitted))

Contains(message, part) == part = "" \/ message = part

Delivered == rx.attempt.st # "pending"

ResponsesFor(responses, id) == {i \in DOMAIN responses : responses[i].id = id}

getActiveRequestsCount(table) == Cardinality(DOMAIN table)

\* No call of sendRequest is waiting: each is settled or was never made.
NoneOutstanding(r) == \A i \in DOMAIN r : r[i].st \in {"new", "resolved", "rejected"}

\* The part of C29 that is about responses and timeouts: the entries of the
\* table and the armed timers are the same ids, an id leaves both in the same
\* step, an id that has left never comes back (so its attempt is settled
\* once), and the table is empty when no call is waiting.
TimerPerEntry ==
  [][/\ timers' = DOMAIN activeRequests'
     /\ \A id \in DOMAIN activeRequests :
          id \notin DOMAIN activeRequests' <=> id \notin timers'
     /\ \A id \in 1..(nextId - 1) :
          id \notin DOMAIN activeRequests => id \notin DOMAIN activeRequests'
     /\ NoneOutstanding(req') => getActiveRequestsCount(activeRequests') = 0
    ]_vars

\* C29 (refuted, see C8): every entry of the active table has its armed
\* timer and every armed timer its entry; an entry that ends by response, by
\* timeout or by the exit of its target loses its timer and leaves the table
\* in that same step; each attempt is settled once and the table is empty
\* when no request is outstanding.
C29_EntryAndTimerEndTogether ==
  [][/\ timers' = DOMAIN activeRequests'
     /\ \A id \in DOMAIN activeRequests :
          id \notin DOMAIN activeRequests' <=> id \notin timers'
     /\ \A id \in DOMAIN activeRequests :
          (activeRequests[id].child \in alive \ alive') =>
             (id \notin DOMAIN activeRequests' /\ id \notin timers')
     /\ \A id \in 1..(nextId - 1) :
          id \notin DOMAIN activeRequests => id \notin DOMAIN activeRequests'
     /\ NoneOutstanding(req') => getActiveRequestsCount(activeRequests') = 0
    ]_vars


\* ---------------------------------------------------------------- C30
\* The worker clears its queue, removes its listeners and leaves the channel.
LeavesChannel == worker.connected /\ ~worker'.connected

\* The concurrent half of C30: a worker that is not sequential leaves while
\* a handler runs only when the 10 s of the wait are over.
ConcurrentShutdownWaits ==
  [][(LeavesChannel /\ worker.mode # "sequential")
       => (DOMAIN trace.running = {} \/ worker'.forced)]_vars

\* C30 (refuted): in either mode a worker that is shutting down leaves the
\* channel (queue cleared, listeners removed) only when no handler it started
\* is still running, or when the 10 s of the wait are over.
C30_ShutdownWaitsForHandlers ==
  [][LeavesChannel => (DOMAIN trace.running = {} \/ worker'.forced)]_vars


\* ---------------------------------------------------------------- C31
\* The items of a queue.
ItemsOf(queue) == {queue[i].item : i \in DOMAIN queue}

\* C31: once the shutdown flag is set no handler is started: a REQUEST that
\* arrives is neither queued nor answered, the only RESPONSEs are those of
\* handlers that were already running, an item leaves the queue only when the
\* queue is cleared, and a sendRequest of the worker is rejected with a
\* PeepsyError while nothing is sent and nothing is awaited.
C31_NothingStartsAfterFlag ==
  [][worker.isShuttingDown =>
       /\ DOMAIN trace'.running \subseteq DOMAIN trace.running
       /\ \A i \in DOMAIN trace'.emitted :
            i > Len(trace.emitted) => trace'.emitted[i].id \in DOMAIN trace.running
       /\ trace'.nextMsg > trace.nextMsg =>
            /\ worker' = worker
            /\ trace'.enqueued = trace.enqueued /\ trace'.emitted = trace.emitted
       /\ ItemsOf(worker'.queue) \subseteq ItemsOf(worker.queue)
       /\ (ItemsOf(worker.queue) \ ItemsOf(worker'.queue)) \subseteq trace'.cleared
       /\ up'.nextId > up.nextId =>
            /\ up'.calls[up.nextId].st = "rejected"
            /\ up'.calls[up.nextId].name = "PeepsyError"
            /\ up'.toMaster = up.toMaster /\ up'.active = up.active
    ]_vars

\* C31 witness: after the flag was set, with a request still waiting in the
\* queue behind a handler that has meanwhile answered, a REQUEST arrived and
\* a sendRequest of the worker was rejected.
C31_Witness ==
  /\ worker.isShuttingDown /\ worker.connected
  /\ worker.queue # <<>>
  /\ trace.emitted # <<>>
  /\ DOMAIN trace.running = {}
  /\ trace.nextMsg - 1 > Len(trace.enqueued)
  /\ \E id \in DOMAIN up.calls : up.calls[id].message = "Cannot send request during shutdown"


\* ---------------------------------------------------------------- C32
\* A concurrent worker constructed with maxConcurrency > 0.
Bounded == worker.mode = "concurrent" /\ worker.maxConcurrency > 0

\* C32 (refuted, see C13): in a bounded concurrent worker that is not
\* shutting down, a REQUEST that arrives while the cap is reached waits in
\* the queue, and the completion of a handler while requests wait starts one
\* of them in that step, with no further REQUEST.
C32_PumpOnCompletion ==
  [][(Bounded /\ ~worker.isShuttingDown) =>
       /\ (/\ trace'.nextMsg > trace.nextMsg
           /\ Cardinality(DOMAIN trace.running) >= worker.maxConcurrency)
            => /\ trace.nextMsg \in ItemsOf(worker'.queue)
               /\ trace.nextMsg \notin DOMAIN trace'.running
               /\ trace'.emitted = trace.emitted
       /\ (/\ DOMAIN trace.running \ DOMAIN trace'.running # {}
           /\ worker.queue # <<>>)
            => ItemsOf(worker.queue) \ ItemsOf(worker'.queue) # {}
    ]_vars


\* ---------------------------------------------------------------- C33
\* The entries of the active table that were sent to the worker of target t.
EntriesOf(table, t) == {id \in DOMAIN table : targetOf[table[id].child] = t}

\* C33 (refuted): requests_active of every target is the number of entries
\* of the active table that were sent to it, so a request that timed out no
\* longer counts.
C33_ActiveCountsEntries ==
  \A t \in DOMAIN processStats :
    processStats[t].requestsActive = Cardinality(EntriesOf(activeRequests, t))


\* ---------------------------------------------------------------- C34
\* C34 (refuted, see C21): every worker process that has not exited is the
\* child of the record of its target.
C34_RunningWorkerHasRecord ==
  \A c \in alive :
    /\ targetOf[c] \in DOMAIN processes
    /\ processes[targetOf[c]].child = c


\* ---------------------------------------------------------------- C35
\* C35 (refuted): when the exit of a worker of a group is followed by its
\* re-spawn, the group still exists and has the configuration it had before
\* the exit.
C35_RestartKeepsGroupConfig ==
  [][\A c \in alive \ alive' :
       LET t == targetOf[c]
       IN (/\ nextChild' = nextChild + 1
           /\ t \in DOMAIN processes
           /\ processes[t].child = c
           /\ processes[t].groupId # NoGroup
           /\ processes[t].groupId \in DOMAIN groups)
          => /\ processes[t].groupId \in DOMAIN groups'
             /\ groups'[processes[t].groupId].config = groups[processes[t].groupId].config
    ]_vars

\* The other half of C35: the re-spawn of a worker whose group has another
\* member leaves the configuration of the group as it was.
RestartKeepsSharedGroupConfig ==
  [][\A c \in alive \ alive' :
       LET t == targetOf[c]
       IN (/\ nextChild' = nextChild + 1
           /\ t \in DOMAIN processes
           /\ processes[t].child = c
           /\ processes[t].groupId # NoGroup
           /\ processes[t].groupId \in DOMAIN groups
           /\ Len(groups[processes[t].groupId].targets) > 1)
          => /\ processes[t].groupId \in DOMAIN groups'
             /\ groups'[processes[t].groupId].config = groups[processes[t].groupId].config
    ]_vars


\* ---------------------------------------------------------------- C36
\* The worker has sent the RESPONSE of request id.
Answered(id) == \E i \in DOMAIN trace.emitted : trace.emitted[i].id = id

\* The safety half of C36: a sequential worker that is not shutting down
\* never has a non-empty queue while no handler runs and no loop is active.
NoIdleBacklog ==
  (worker.mode = "sequential" /\ ~worker.isShuttingDown /\ worker.queue # <<>>)
    => (worker.isProcessing /\ \E id \in DOMAIN trace.running : trace.running[id] = "queue")

\* C36: in a sequential worker whose handlers terminate, a request that is
\* in the queue is eventually answered, unless it expires in the queue or
\* the worker begins to shut down; and the queue is never left non-empty
\* with no handler running and no loop active.
C36_QueuedIsAnswered ==
  /\ []NoIdleBacklog
  /\ \A id \in 1..MaxMsgs :
       (id \in ItemsOf(worker.queue) /\ ~worker.isShuttingDown)
         ~> (Answered(id) \/ id \in trace.expired \/ worker.isShuttingDown)

\* C36 witness: a request that waited in the queue behind a running handler
\* has been answered by a worker that is not shutting down.
C36_Witness ==
  /\ worker.mode = "sequential" /\ ~worker.isShuttingDown
  /\ trace.enqueued = <<1, 2>>
  /\ trace.kinds[1] = "async"
  /\ trace.expired = {}
  /\ Answered(1) /\ Answered(2)


\* ---------------------------------------------------------------- C37
\* The positions of target t in the list of group g.
PositionsOf(grps, g, t) == {i \in DOMAIN grps[g].targets : grps[g].targets[i] = t}

\* C37: every target listed in a group has a record; a target is listed at
\* most once, in no group but the one its record was spawned with, and is
\* listed there; a group that loses its last target is deleted together
\* with its round-robin cursor. (One record per target: processes is a map.)
C37_GroupsAndRecords ==
  [][/\ \A g \in DOMAIN groups' : \A t \in Range(groups'[g].targets) :
          /\ GroupsOf(groups', t) = {g}
          /\ t \in DOMAIN processes'
          /\ processes'[t].groupId = g
          /\ Cardinality(PositionsOf(groups', g, t)) = 1
     /\ \A t \in DOMAIN processes' :
          processes'[t].groupId # NoGroup =>
            /\ processes'[t].groupId \in DOMAIN groups'
            /\ t \in Range(groups'[processes'[t].groupId].targets)
     /\ \A g \in DOMAIN groups :
          (groups[g].targets # <<>> /\ g \in DOMAIN groups') => groups'[g].targets # <<>>
     /\ \A g \in DOMAIN groups \ DOMAIN groups' : g \notin DOMAIN roundRobinCounters'
    ]_vars

\* C37 witness: t1 was spawned into one group, shut down, and spawned into
\* the other, where its worker has since been restarted: the first group and
\* its cursor are gone and t1 is listed once, in the second group.
C37_Witness ==
  /\ DOMAIN groups = {"g2"} /\ DOMAIN roundRobinCounters = {"g2"}
  /\ groups["g2"].targets = <<"t1">>
  /\ DOMAIN processes = {"t1"}
  /\ nextChild = 4
  /\ alive = {3}


\* ---------------------------------------------------------------- C38
\* The entries of queue q that have not expired.
Live(q) == {i \in DOMAIN q : now < q[i].expiry}

\* The step is a call of dequeue, or of cleanExpiredMessages.
DequeueStep == pq' # pq /\ pq'.op = "dequeue"
CleanStep == pq' # pq /\ pq'.op = "clean"

\* What the dequeue of this step returned (0 for null).
Returned == pq'.out[Len(pq'.out)]

\* C38: a dequeue from a queue none of whose entries has expired returns the
\* entry of the lowest priority number and, among those, the one enqueued
\* first (items are numbered in the order of their enqueue), and removes it;
\* so successive dequeues come in ascending priority, ties in enqueue order.
C38_PriorityThenFifo ==
  [][(DequeueStep /\ pq.queue # <<>> /\ Live(pq.queue) = DOMAIN pq.queue) =>
       \E i \in DOMAIN pq.queue :
         /\ Returned = pq.queue[i].item
         /\ \A j \in DOMAIN pq.queue \ {i} :
              \/ pq.queue[i].priority < pq.queue[j].priority
              \/ (pq.queue[i].priority = pq.queue[j].priority
                  /\ pq.queue[i].item < pq.queue[j].item)
         /\ ItemsOf(pq'.queue) = ItemsOf(pq.queue) \ {Returned}
    ]_vars

\* C38 witness: item 1 was enqueued with priority 1, items 2 and 3 with
\* priority 0, and three dequeues have returned 2, 3, 1.
C38_Witness == pq.out = <<2, 3, 1>>

\* ---------------------------------------------------------------- C39
\* C39: dequeue returns the first entry that has not expired (now < expiry),
\* removes it and every entry in front of it, and returns null, leaving the
\* queue empty, when every entry has expired.
C39_DequeueSkipsExpired ==
  [][DequeueStep =>
       LET q == pq.queue
       IN IF Live(q) = {}
          THEN Returned = 0 /\ pq'.queue = <<>>
          ELSE LET first == CHOOSE i \in Live(q) : \A j \in Live(q) : i <= j
               IN /\ Returned = q[first].item
                  /\ now < q[first].expiry
                  /\ pq'.queue = SubSeq(q, first + 1, Len(q))
    ]_vars

\* The consequence C39 draws for the worker: a request that the worker takes
\* from its queue and starts has not expired.
WorkerSkipsExpired ==
  [][\A id \in Started : \A i \in DOMAIN worker.queue :
       worker.queue[i].item = id => now < worker.queue[i].expiry]_vars

\* C39 witness: of two items enqueued, the first had expired when dequeue ran:
\* dequeue returned the second, and the next dequeue, after a third item had
\* been enqueued and had expired, returned null.
C39_Witness ==
  /\ pq.out = <<2, 0>>
  /\ pq.nextItem = 4
  /\ pq.queue = <<>>
  /\ pq.removed = 0 /\ ~pq.twice

\* ---------------------------------------------------------------- C40
\* The k-th entry, counted from the front, among those of q that have not
\* expired.
KthLive(q, k) == CHOOSE i \in Live(q) : Cardinality({j \in Live(q) : j <= i}) = k

\* C40: cleanExpiredMessages keeps exactly the entries with now < expiry, in
\* their order, and returns the number of the others; a second call at the
\* same instant returns 0 and leaves the queue as it is.
C40_CleanExpiredOnce ==
  [][CleanStep =>
       /\ Len(pq'.queue) = Cardinality(Live(pq.queue))
       /\ \A k \in DOMAIN pq'.queue : pq'.queue[k] = pq.queue[KthLive(pq.queue, k)]
       /\ pq'.removed = Cardinality(DOMAIN pq.queue \ Live(pq.queue))
       /\ cleanExpiredMessages(pq'.queue) = pq'.queue
       /\ pq'.twice => (pq'.removed = 0 /\ pq'.queue = pq.queue)
    ]_vars

\* C40 witness: three items were enqueued and none dequeued; a call has
\* removed two expired ones and the call right after it, at the same
\* instant, returned 0 and left the third in the queue.
C40_Witness ==
  /\ pq.op = "clean" /\ pq.twice /\ pq.removed = 0
  /\ pq.nextItem = 4 /\ pq.out = <<>>
  /\ Len(pq.queue) = 1

====
